---- MODULE Spec2Model ----
(***************************************************************************)
(* Model of the heuristic email-importance classifier of the daily email   *)
(* report (isLikelyUnwantedEmail, isObviouslyAdvertisement and their       *)
(* helpers) and of the filtering stage of fetchEmails that calls them.     *)
(*                                                                         *)
(* JavaScript strings are modelled as TLA+ strings, character by           *)
(* character.  TLA+ strings are ASCII only, so three characters stand for  *)
(* the non-ASCII glyphs the regular expressions of the source mention:     *)
(*   "~"  a pictograph of U+1F300..U+1F6FF (for instance the fire glyph),  *)
(*   "^"  a symbol of U+2600..U+26FF (for instance the sun glyph),         *)
(*   "#"  the star U+2B50 or the sparkles U+2728.                          *)
(***************************************************************************)
EXTENDS Integers, Sequences, FiniteSets, TLC

(* String primitives of the JavaScript runtime                             *)

CharAt(s, i) == SubSeq(s, i, i)

\* the characters i..j of s that exist (1-based, both ends included)
Slice(s, i, j) ==
  IF i > Len(s) \/ j < i THEN ""
  ELSE SubSeq(s, i, IF j > Len(s) THEN Len(s) ELSE j)

\* String.prototype.startsWith, also the anchor ^ of a regular expression
startsWith(s, p) == Slice(s, 1, Len(p)) = p

\* the case mappings of the ASCII letters; every other character of the
\* model maps to itself
LowerOf ==
  [A |-> "a", B |-> "b", C |-> "c", D |-> "d", E |-> "e", F |-> "f", G |->
   "g", H |-> "h", I |-> "i", J |-> "j", K |-> "k", L |-> "l", M |-> "m",
   N |-> "n", O |-> "o", P |-> "p", Q |-> "q", R |-> "r", S |-> "s", T |->
   "t", U |-> "u", V |-> "v", W |-> "w", X |-> "x", Y |-> "y", Z |-> "z"]

UpperOf ==
  [a |-> "A", b |-> "B", c |-> "C", d |-> "D", e |-> "E", f |-> "F", g |->
   "G", h |-> "H", i |-> "I", j |-> "J", k |-> "K", l |-> "L", m |-> "M",
   n |-> "N", o |-> "O", p |-> "P", q |-> "Q", r |-> "R", s |-> "S", t |->
   "T", u |-> "U", v |-> "V", w |-> "W", x |-> "X", y |-> "Y", z |-> "Z"]

toLowerChar(c) == IF c \in DOMAIN LowerOf THEN LowerOf[c] ELSE c

toUpperChar(c) == IF c \in DOMAIN UpperOf THEN UpperOf[c] ELSE c

RECURSIVE toLowerCase(_)
toLowerCase(s) ==
  IF s = "" THEN ""
  ELSE IF Len(s) = 1 THEN toLowerChar(s)
  ELSE toLowerCase(SubSeq(s, 1, Len(s) \div 2))
         \o toLowerCase(SubSeq(s, Len(s) \div 2 + 1, Len(s)))

RECURSIVE toUpperCase(_)
toUpperCase(s) ==
  IF s = "" THEN "" ELSE toUpperChar(Head(s)) \o toUpperCase(Tail(s))

\* String.prototype.includes
includes(s, p) ==
  \E i \in 1..(Len(s) - Len(p) + 1) : SubSeq(s, i, i + Len(p) - 1) = p

\* the class \s of a regular expression, also what trim() strips
IsWhiteSpace(c) == c \in {" ", "\t", "\n", "\r", "\f"}

\* the characters the regular expression atom . does not match
IsLineTerminator(c) == c \in {"\n", "\r"}

RECURSIVE trimStart(_)
trimStart(s) ==
  IF s # "" /\ IsWhiteSpace(Head(s)) THEN trimStart(Tail(s)) ELSE s

RECURSIVE trimEnd(_)
trimEnd(s) ==
  IF s # "" /\ IsWhiteSpace(CharAt(s, Len(s)))
    THEN trimEnd(SubSeq(s, 1, Len(s) - 1))
    ELSE s

trim(s) == trimEnd(trimStart(s))

\* String.prototype.split(/\s+/): the pieces between the maximal runs of
\* white space, the empty leading and trailing pieces included
RECURSIVE splitRec(_, _, _, _)
splitRec(s, i, cur, acc) ==
  IF i > Len(s) THEN Append(acc, cur)
  ELSE IF IsWhiteSpace(CharAt(s, i))
    THEN IF i > 1 /\ IsWhiteSpace(CharAt(s, i - 1))
           THEN splitRec(s, i + 1, cur, acc)
           ELSE splitRec(s, i + 1, "", Append(acc, cur))
    ELSE splitRec(s, i + 1, cur \o CharAt(s, i), acc)

splitWhiteSpace(s) == splitRec(s, 1, "", <<>>)

\* s.split('@')
RECURSIVE splitAtRec(_, _, _, _)
splitAtRec(s, i, cur, acc) ==
  IF i > Len(s) THEN Append(acc, cur)
  ELSE IF CharAt(s, i) = "@"
    THEN splitAtRec(s, i + 1, "", Append(acc, cur))
    ELSE splitAtRec(s, i + 1, cur \o CharAt(s, i), acc)

splitAt(s) == splitAtRec(s, 1, "", <<>>)

\* /p/i.test(s) for a pattern p in which . is the any-character atom
testDotI(s, p) ==
  LET l == toLowerCase(s)
  IN  \E i \in 1..(Len(l) - Len(p) + 1) :
        \A k \in 1..Len(p) :
          IF CharAt(p, k) = "."
            THEN ~IsLineTerminator(CharAt(l, i + k - 1))
            ELSE CharAt(l, i + k - 1) = CharAt(p, k)

\* /\[\s*tag\s*\]/i.test(s)
testBracketTagI(s, tag) ==
  LET l == toLowerCase(s)
  IN  \E i \in 1..Len(l) :
        /\ CharAt(l, i) = "["
        /\ \E j \in (i + 1)..Len(l) :
             /\ CharAt(l, j) = "]"
             /\ trim(Slice(l, i + 1, j - 1)) = tag

\* /a.*b/i.test(s)
testDotStarI(s, a, b) ==
  LET l == toLowerCase(s)
  IN  \E i \in 1..Len(l) :
        /\ Slice(l, i, i + Len(a) - 1) = a
        /\ \E j \in (i + Len(a))..Len(l) :
             /\ Slice(l, j, j + Len(b) - 1) = b
             /\ \A k \in (i + Len(a))..(j - 1) :
                  ~IsLineTerminator(CharAt(l, k))

(* The keyword tables of isLikelyUnwantedEmail                             *)

\* unwantedPatterns: the patterns that are plain case-insensitive literals,
\* in source order
unwantedPatternLiterals ==
  <<"newsletter", "subscribe", "unsubscribe", "special offer",
    "discount", "sale", "promo", "off", "save", "deal", "free", "click",
    "buy", "limited time", "exclusive", "opportunity", "webinar",
    "coupon", "promotion", "update", "daily", "weekly", "notification",
    "receipt", "invoice", "order", "advertisement", "sponsor",
    "marketing", "campaign", "special pricing", "learn more", "join us",
    "membership", "trial", "demo", "sign up", "register", "survey",
    "feedback", "review", "thank you for", "thanks for", "confirm",
    "your account", "your order", "your subscription",
    "your registration", "don't miss", "don't forget", "reminder",
    "latest", "introducing", "new release", "now available",
    "waiting for you", "important news", "bulletin", "digest", "summary",
    "statement", "events", "invitation", "access", "welcome", "verify",
    "upgrade", "activate", "undeliverable", "mail delivery failed",
    "delivery status notification", "mailer-daemon", "delivery failure",
    "virus detected", "suspended", "bitcoin", "blockchain",
    "cryptocurrency", "crypto", "lottery", "prize", "won", "winner",
    "investment opportunity", "make money", "earn from home",
    "work from home", "job offer", "job opportunity", "job listing",
    "pills", "medication", "pharma", "pharmacy", "diet", "weight loss",
    "lose weight", "insurance quote", "mortgage", "refinance",
    "loan approval", "credit score">>

\* unwantedPatterns: /\[\s*spam\s*\]/i and its three siblings
unwantedPatternTags == <<"spam", "bulk", "ad", "advertisement">>

\* unwantedPatterns: /account.*verify/i and /approve.*profile/i
unwantedPatternPairs == <<<<"account", "verify">>, <<"approve", "profile">>>>

unwantedSendersWithPromo ==
  <<"marketing", "newsletter", "info", "promo">>

unwantedSenders ==
  <<"marketing", "newsletter", "info", "noreply", "no-reply", "mail",
    "email", "news", "update", "offers", "promotions", "sales",
    "support", "hello", "contact", "admin", "team", "events", "webinar",
    "service", "billing", "account", "notification", "alert", "security",
    "membership", "customer", "social", "community", "care", "digital",
    "communications", "notices", "updates", "help", "donotreply",
    "feedback", "verification", "digest", "bulletin", "statement",
    "subscription", "spam", "bulk", "advert", "promotional",
    "autoresponder", "bounce", "daemon", "system", "robot", "auto",
    "confirm", "verify", "validation", "reply-to", "mailer", "broadcast",
    "campaign", "offer", "deal", "discount", "promotion", "sale",
    "special", "subscribe", "unsubscribe", "click", "track", "bounce",
    "delivery", "postmaster", "mail-daemon", "mailing", "maildelivery",
    "mail-delivery">>

advertisingDomains ==
  <<"mailchimp", "sendgrid", "constantcontact", "hubspot", "marketo",
    "salesforce", "mailerlite", "campaign-archive", "campaignmonitor",
    "aweber", "mailgun", "amazonses", "sparkpost", "klaviyo", "cm.com",
    "dotmailer", "icontact", "verticalresponse", "activecampaign",
    "getresponse", "brevo", "sendinblue", "exacttarget", "mailjet",
    "zoho", "e-flyers", "postmaster", "mailer-daemon", "bounce", "click",
    "marketing", "tracking", "cmail", "xmail", "smail", "emarketing",
    "emarsys", "emailvision", "emsecure", "fishbowl", "listrak",
    "exacttarget", "madgexjb", "mailtrack", "message-business",
    "netatlantic", "publicaster", "returnpath", "sailthru", "strongview",
    "marketingcloud", "email-od", "emaillabs", "listrakbi", "robly",
    "mailmchrmp", "cheetahmail", "emailcampaigns", "exacttarget",
    "mailpro", "dmdconnects", "infusionmail", "iphmx", "emaildirect",
    "mimecast", "ccsend", "dotmailer", "listserve", "industrymailings",
    "deliveredby", "communications", "surveygizmo", "surveymonkey">>

\* the alternatives of the hasMarketingFooter expression
marketingFooterPatterns ==
  <<"unsubscribe", "opt.out", "view.in.browser", "privacy.policy",
    "email.preferences", "update profile">>

\* the alternatives of the hasSuspiciousLinks expression, https? expanded
suspiciousLinkPatterns ==
  <<"http://bit.ly", "https://bit.ly", "http://tinyurl", "https://tinyurl",
    "http://goo.gl", "https://goo.gl", "click here", "click this link">>

\* [\u{1F300}-\u{1F6FF}\u{2600}-\u{26FF}] with the u flag
EmojiClass == {"~", "^"}

\* [!$%*...] without the u flag: the class holds the UTF-16 code units of the
\* listed glyphs, so every pictograph of U+1F300..U+1F6FF matches it through
\* its high surrogate, and so do the star and the sparkles
SpecialCharClass == {"!", "$", "%", "*", "~", "#"}

(* calculateSpamBodyScore and hasMarketingIndicators                       *)

highSignalPhrases ==
  <<"viagra", "cialis", "pharmacy", "pills", "medication", "lottery",
    "prize", "winner", "won", "casino", "bitcoin", "crypto",
    "investment opportunity", "make money fast", "millions",
    "billionaire", "get rich", "nigerian prince", "bank transfer",
    "wire transfer", "western union", "warranty", "extended warranty",
    "car warranty", "your password", "your account has been",
    "security alert", "tax refund", "irs", "government grant", "fbi",
    "cia", "singles in your area", "hot girls", "dating site",
    "weight loss", "diet pills", "lose weight fast">>

mediumSignalPhrases ==
  <<"limited time", "exclusive offer", "special deal", "save up to",
    "discount", "clearance", "sale", "increase your", "enhance your",
    "improve your", "one time offer", "act now", "don't wait",
    "for free", "at no cost", "no obligation", "congratulations",
    "selected", "chosen", "best rates", "lowest price", "guaranteed">>

lowSignalPhrases ==
  <<"click here", "visit our website", "check out", "new product",
    "learn more", "find out", "best", "great", "amazing", "opportunity",
    "solution", "benefits">>

\* number of the phrases of a table that the lower-cased body includes
phraseHits(bodyLower, phrases) ==
  Cardinality({i \in DOMAIN phrases : includes(bodyLower, phrases[i])})

\* bodyLower.match(/https?:\/\//g).length
urlMatches(bodyLower) ==
  Cardinality({i \in 1..Len(bodyLower) :
                 \/ Slice(bodyLower, i, i + 6) = "http://"
                 \/ Slice(bodyLower, i, i + 7) = "https://"})

\* The score is kept in half points, so the function yields twice the
\* number the source computes (2 -> 4, 1 -> 2, 0.5 -> 1).
calculateSpamBodyScore(body) ==
  IF body = "" THEN 0
  ELSE LET bodyLower == toLowerCase(body)
           urls == urlMatches(bodyLower)
       IN  4 * phraseHits(bodyLower, highSignalPhrases)
           + 2 * phraseHits(bodyLower, mediumSignalPhrases)
           + phraseHits(bodyLower, lowSignalPhrases)
           + (IF urls > 3 THEN 2 ELSE 0)
           + (IF urls > 6 THEN 2 ELSE 0)

marketingTermsWithBudget ==
  <<"newsletter", "subscribe", "unsubscribe", "offer", "budget">>

marketingTerms ==
  <<"newsletter", "subscribe", "unsubscribe", "offer", "discount",
    "sale", "promotion", "deal", "free", "limited time", "exclusive",
    "click here", "learn more", "buy now", "shop now", "act now",
    "special price", "for a limited time", "don't miss out",
    "introducing", "latest", "new", "update", "upgrade", "announcement",
    "savings", "discount", "clearance", "bargain", "earn", "cash back",
    "gift", "chance", "opportunity", "call to action", "open",
    "important", "alert", "notification", "membership", "subscription",
    "access", "register", "win", "bonus", "extra", "unlock", "invitation">>

hasMarketingIndicators(text) ==
  LET lowerText == toLowerCase(text)
  IN  \E i \in DOMAIN marketingTerms : includes(lowerText, marketingTerms[i])

(* The signals of isLikelyUnwantedEmail                                    *)

hasUnwantedSubject(subject) ==
  LET l == toLowerCase(subject)
  IN  \/ \E i \in DOMAIN unwantedPatternLiterals :
           includes(l, unwantedPatternLiterals[i])
      \/ \E i \in DOMAIN unwantedPatternTags :
           testBracketTagI(subject, unwantedPatternTags[i])
      \/ \E i \in DOMAIN unwantedPatternPairs :
           testDotStarI(subject, unwantedPatternPairs[i][1],
                        unwantedPatternPairs[i][2])

\* fromParts[0] || ''
localPartOf(from) == splitAt(from)[1]

\* fromParts[1] || ''
domainOf(from) ==
  LET fromParts == splitAt(from)
  IN  IF Len(fromParts) >= 2 THEN fromParts[2] ELSE ""

hasUnwantedSenderCaseSensitive(from) ==
  LET l == localPartOf(from)
  IN  \E i \in DOMAIN unwantedSenders : includes(l, unwantedSenders[i])

hasUnwantedSender(from) ==
  LET l == toLowerCase(localPartOf(from))
  IN  \E i \in DOMAIN unwantedSenders :
        includes(l, toLowerCase(unwantedSenders[i]))

isAdvertisingDomain(from) ==
  LET d == toLowerCase(domainOf(from))
  IN  \E i \in DOMAIN advertisingDomains :
        d # "" /\ includes(d, toLowerCase(advertisingDomains[i]))

hasEmoji(subject) ==
  \E i \in 1..Len(subject) : CharAt(subject, i) \in EmojiClass

\* RegExp.prototype.test of the /g expression of hasSpecialChars on a
\* RegExp object whose lastIndex is the given one: the search starts at
\* lastIndex, a match leaves lastIndex after the match, a failure resets it
testSpecialCharsG(subject, lastIndex) ==
  LET hits == {i \in 1..Len(subject) :
                 i > lastIndex /\ CharAt(subject, i) \in SpecialCharClass}
  IN  [matched   |-> hits # {},
       lastIndex |-> IF hits = {} THEN 0
                     ELSE CHOOSE i \in hits : \A j \in hits : i <= j]

hasMarketingFooter(body) ==
  \E i \in DOMAIN marketingFooterPatterns :
    testDotI(body, marketingFooterPatterns[i])

hasTooManyCaps(subject) ==
  LET words == splitWhiteSpace(subject)
      wordCount == Len(words)
      capsWords == Cardinality({i \in DOMAIN words :
                     Len(words[i]) > 1 /\ words[i] = toUpperCase(words[i])})
  IN  wordCount > 3 /\ 2 * capsWords > wordCount

hasSpamBodyContentFromThree(body) == calculateSpamBodyScore(body) >= 2 * 3

\* bodySpamScore > 3, in half points
hasSpamBodyContent(body) == calculateSpamBodyScore(body) > 2 * 3

hasSuspiciousLinks(body) ==
  LET l == toLowerCase(body)
  IN  \E i \in DOMAIN suspiciousLinkPatterns :
        includes(l, suspiciousLinkPatterns[i])

IsBangOrQuery(c) == c \in {"!", "?"}

\* /[!?]{2,}|(?:[!?].*){3,}/
excessivePunctuation(subject) ==
  \/ \E i \in 1..(Len(subject) - 1) :
       IsBangOrQuery(CharAt(subject, i)) /\ IsBangOrQuery(CharAt(subject, i + 1))
  \/ \E i \in 1..Len(subject) :
       /\ IsBangOrQuery(CharAt(subject, i))
       /\ \E j \in (i + 1)..Len(subject) :
            /\ IsBangOrQuery(CharAt(subject, j))
            /\ \E k \in (j + 1)..Len(subject) :
                 /\ IsBangOrQuery(CharAt(subject, k))
                 /\ \A m \in i..k : ~IsLineTerminator(CharAt(subject, m))

isCompanyEmailCaseSensitive(from, companyEmployees) ==
  \E employee \in companyEmployees : employee = from

isCompanyEmail(from, companyEmployees) ==
  LET fromLower == toLowerCase(from)
  IN  \E employee \in companyEmployees : toLowerCase(employee) = fromLower

isReplyOrForwardCaseSensitive(subject) ==
  LET t == trim(subject)
  IN  startsWith(t, "re:") \/ startsWith(t, "fwd:") \/ startsWith(t, "fw:")

isReplyOrForward(subject) ==
  LET t == toLowerCase(trim(subject))
  IN  startsWith(t, "re:") \/ startsWith(t, "fwd:") \/ startsWith(t, "fw:")

(* The two classifiers                                                     *)

\* o.k || '' for a string field: an absent field and an empty one both
\* give the empty string
OrEmpty(o, f) == IF f \in DOMAIN o THEN o[f] ELSE ""

obviousMarketingSubjects ==
  <<"newsletter", "weekly update", "monthly update", "company announcement",
    "announcement:", "marketing blast", "marketing update", "advertisement",
    "[marketing]", "[newsletter]">>

hasObviousMarketingSubject(subject) ==
  LET l == toLowerCase(subject)
  IN  \E i \in DOMAIN obviousMarketingSubjects :
        includes(l, obviousMarketingSubjects[i])

\* /unsubscribe|opt.out/i
hasUnsubscribeLink(body) ==
  testDotI(body, "unsubscribe") \/ testDotI(body, "opt.out")

\* /do not reply|donotreply|no-reply|noreply/i
hasDoNotReply(body) ==
  LET l == toLowerCase(body)
  IN  \/ includes(l, "do not reply")
      \/ includes(l, "donotreply")
      \/ includes(l, "no-reply")
      \/ includes(l, "noreply")

\* Everything the classifiers compute from the subject alone, from the
\* sender address alone and from the body alone.
subjectFacts(subject) ==
  [hasUnwantedSubject         |-> hasUnwantedSubject(subject),
   hasEmoji                   |-> hasEmoji(subject),
   hasTooManyCaps             |-> hasTooManyCaps(subject),
   excessivePunctuation       |-> excessivePunctuation(subject),
   isReplyOrForward           |-> isReplyOrForward(subject),
   hasMarketingIndicators     |-> hasMarketingIndicators(subject),
   hasObviousMarketingSubject |-> hasObviousMarketingSubject(subject)]

addressFacts(from) ==
  [hasUnwantedSender   |-> hasUnwantedSender(from),
   isAdvertisingDomain |-> isAdvertisingDomain(from)]

bodyFacts(body) ==
  [hasMarketingFooter |-> hasMarketingFooter(body),
   bodySpamScore      |-> calculateSpamBodyScore(body),
   hasSpamBodyContent |-> hasSpamBodyContent(body),
   hasSuspiciousLinks |-> hasSuspiciousLinks(body),
   hasUnsubscribeLink |-> hasUnsubscribeLink(body),
   hasDoNotReply      |-> hasDoNotReply(body)]

(* The inputs the model draws from                                         *)

\* number of classifier calls of one run of the caller
MaxCalls == 2

Subjects ==
  {"Q2 Budget", "Re: Q2 Budget", "RE: invoice", "Fwd: new plan", " fw: Q2",
   "Re: free offer", "Newsletter", "Hi!", "hi ^", "hello big blue sky",
   "PLEASE CALL ME TODAY", "what?? now", "50% OFF - Unsubscribe now!",
   "10 20 30 40"}

Addresses ==
  {"jane@company.com", "Jane@Company.COM", "info@vendor.org",
   "bob@sendgrid.net", "promo@mailchimp.com"}

SevenLinks ==
  "limited time act now http://a http://b http://c http://d http://e "
    \o "http://f https://g"

Bodies ==
  {"Let's finalize numbers by Friday.", "click here", "To unsubscribe reply",
   "do not reply", "viagra lottery", "viagra discount",
   "viagra discount best", SevenLinks}

TrustedSets ==
  {{}, {"jane@company.com"}, {"Jane@Company.com", "info@vendor.org"}}

\* an optional field is drawn as a set with no or one element
Optional(S) == {{}} \cup {{v} : v \in S}

Field(f, opt) == IF opt = {} THEN <<>> ELSE f :> (CHOOSE v \in opt : TRUE)

\* the sender record: without an address, or with address and display name
Senders ==
  {<<>>} \cup {[address |-> a, text |-> "Sender"] : a \in Addresses}

Emails ==
  {Field("subject", s) @@ Field("from", f) @@ Field("text", b) :
     s \in Optional(Subjects), f \in Optional(Senders), b \in Optional(Bodies)}

\* the message another caller classifies in between
OtherEmails ==
  {[subject |-> "Big deal!", from |-> [address |-> "bob@sendgrid.net"],
    text |-> ""]}

\* The facts of every string of the model, computed once per string.
KnownSubjects ==
  LET base == Subjects \cup {"", "Big deal!", "(No Subject)"}
  IN  base \cup {toUpperCase(s) : s \in base}

KnownAddresses ==
  LET base == Addresses \cup {""}
  IN  base \cup {toUpperCase(a) : a \in base}

KnownBodies == Bodies \cup {""}

SubjectFacts == [s \in KnownSubjects |-> subjectFacts(s)]

AddressFacts == [a \in KnownAddresses |-> addressFacts(a)]

BodyFacts == [b \in KnownBodies |-> bodyFacts(b)]

factsOfSubject(subject) ==
  IF subject \in KnownSubjects THEN SubjectFacts[subject]
  ELSE subjectFacts(subject)

factsOfAddress(from) ==
  IF from \in KnownAddresses THEN AddressFacts[from] ELSE addressFacts(from)

factsOfBody(body) ==
  IF body \in KnownBodies THEN BodyFacts[body] ELSE bodyFacts(body)

(* isLikelyUnwantedEmail and isObviouslyAdvertisement                      *)

\* the ten indicators, computed before any of the early returns
reasonsOf(sf, af, bf, special) ==
  [unwantedSubject      |-> sf.hasUnwantedSubject,
   unwantedSender       |-> af.hasUnwantedSender,
   advertisingDomain    |-> af.isAdvertisingDomain,
   hasEmoji             |-> sf.hasEmoji,
   hasSpecialChars      |-> special,
   marketingFooter      |-> bf.hasMarketingFooter,
   tooManyCaps          |-> sf.hasTooManyCaps,
   spamBodyContent      |-> bf.hasSpamBodyContent,
   suspiciousLinks      |-> bf.hasSuspiciousLinks,
   excessivePunctuation |-> sf.excessivePunctuation]

isSpamDroppingCaps(r) ==
  \/ r.unwantedSubject
  \/ r.unwantedSender
  \/ r.advertisingDomain
  \/ r.hasEmoji
  \/ r.hasSpecialChars
  \/ r.marketingFooter
  \/ r.spamBodyContent
  \/ r.suspiciousLinks
  \/ r.excessivePunctuation

isSpam(r) ==
  \/ r.unwantedSubject
  \/ r.unwantedSender
  \/ r.advertisingDomain
  \/ r.hasEmoji
  \/ r.hasSpecialChars
  \/ r.marketingFooter
  \/ r.tooManyCaps
  \/ r.spamBodyContent
  \/ r.suspiciousLinks
  \/ r.excessivePunctuation

\* The lastIndex the /g expression of hasSpecialChars starts from: the
\* expression is a literal inside the function body, so every call builds a
\* new RegExp object whose lastIndex is 0, whatever the object of an
\* earlier call was left with.
specialCharsStartShared(left) == left

specialCharsStart(left) == 0

\* the thread-marker test that guards the second early return
replyExemptIgnoringFooter(sf, bf) ==
  sf.isReplyOrForward /\ ~sf.hasMarketingIndicators

replyExempt(sf, bf) ==
  sf.isReplyOrForward /\ ~sf.hasMarketingIndicators /\ ~bf.hasMarketingFooter

\* what the function hands to logger.debug
loggedAlways(spam, subject, from, reasons) ==
  <<[subject |-> subject, from |-> from, reasons |-> reasons]>>

logged(spam, subject, from, reasons) ==
  IF spam
    THEN <<[subject |-> subject, from |-> from, reasons |-> reasons]>>
    ELSE <<>>

\* What a call does: kind/value are the completion (a returned boolean or a
\* thrown TypeError), path names the return statement taken, logged is what
\* the call hands to logger.debug, lastIndex is what the RegExp object of
\* hasSpecialChars is left with (left: the one of the previous call).
isLikelyUnwantedEmail(email, companyEmployees, left) ==
  IF "from" \notin DOMAIN email
    THEN [kind |-> "throw", value |-> FALSE, path |-> "TypeError",
          logged |-> <<>>, lastIndex |-> left]
  ELSE
    LET subject == OrEmpty(email, "subject")
        from    == OrEmpty(email.from, "address")
        body    == OrEmpty(email, "text")
        sf      == factsOfSubject(subject)
        bf      == factsOfBody(body)
        special == testSpecialCharsG(subject, specialCharsStart(left))
        reasons == reasonsOf(sf, factsOfAddress(from), bf, special.matched)
    IN  IF isCompanyEmail(from, companyEmployees)
          THEN [kind |-> "return", value |-> FALSE, path |-> "company",
                logged |-> <<>>, lastIndex |-> special.lastIndex]
        ELSE IF replyExempt(sf, bf)
          THEN [kind |-> "return", value |-> FALSE, path |-> "reply",
                logged |-> <<>>, lastIndex |-> special.lastIndex]
        ELSE [kind |-> "return", value |-> isSpam(reasons),
              path |-> "signals",
              logged |-> logged(isSpam(reasons), subject, from, reasons),
              lastIndex |-> special.lastIndex]

isObviouslyAdvertisementAnyMarker(email) ==
  LET sf == factsOfSubject(OrEmpty(email, "subject"))
      bf == factsOfBody(OrEmpty(email, "text"))
  IN  [kind |-> "return",
       value |-> sf.hasObviousMarketingSubject
                   \/ (bf.hasUnsubscribeLink \/ bf.hasDoNotReply),
       path |-> "obvious"]

isObviouslyAdvertisement(email) ==
  LET sf == factsOfSubject(OrEmpty(email, "subject"))
      bf == factsOfBody(OrEmpty(email, "text"))
  IN  [kind |-> "return",
       value |-> sf.hasObviousMarketingSubject
                   /\ (bf.hasUnsubscribeLink \/ bf.hasDoNotReply),
       path |-> "obvious"]

(* The state                                                               *)

VARIABLES
  message,      \* the message the caller hands to the classifier
  trusted,      \* the trusted-sender roster the caller holds
  pc,           \* "ready": about to call, "returned": the call completed
  callee,       \* the classifier called last
  ret,          \* its completion: kind, value, path
  debugLog,     \* what logger.debug has been handed so far
  reLastIndex,  \* lastIndex of the RegExp object the last call built
  history,      \* the calls made so far, with their completions
  nCalls,
  mailbox,         \* fetchEmails: the messages the mail API answered with
  filtering,       \* fetchEmails: its enableSpamFiltering argument
  stage,           \* fetchEmails: where the run is
  allEmails,       \* fetchEmails: the processed messages
  filteredEmails,  \* fetchEmails: the messages the filter has kept so far
  cursor,          \* fetchEmails: the element the filter callback is at
  employeesGiven,  \* fetchEmails: whether its companyEmployees argument is
                   \* given; when it is not, the argument is undefined
  sentItems,       \* fetchEmails: the value of sentResponse
  searchHits,      \* fetchEmails: what searchForEmployeeEmails found
  manager,            \* EmailManager: auto_send, sandbox_mode, validator
  callArgs,           \* create_draft_emails: the arguments of the call
  run,                \* create_draft_emails: auto_send_enabled and
                      \* sandbox_mode after lines 95-98
  dpc,                \* create_draft_emails: where the run is
  salespeople,        \* the keys of EMAIL_USERS still to be processed
  user_email,         \* the salesperson of the current iteration
  pending,            \* validation results of user_email not yet processed
  counters,           \* total_for_user, sent_for_user, drafted_for_user
  outbox,             \* the emails the mail API has created, in order
  drafts_created,     \* the dictionary of counts
  batchOutcome,       \* what became of the salesperson's batch of contacts
  handled,            \* what the current iteration did with its contact
  apiKey,             \* summarizer: whether GEMINI_API_KEY is set
  toSummarize,        \* summarizeEmail: its argument
  sumPc,              \* summarizeEmail: "ready", "awaiting" or "settled"
  simpleSummary,      \* summarizeEmail: its constant of that name
  aiOutcome,          \* what the generateContent call came to
  settled,            \* how the promise of summarizeEmail settled
  emailsByEmployee,   \* summarizeEmails: its argument, as ordered entries
  summaries,          \* summarizeEmails: the object it builds
  entryIndex,         \* summarizeEmails: position in Object.entries
  offset,             \* summarizeEmails: the loop variable i
  calls,              \* the summarizeEmail calls of the current batch
  settleOrder,        \* the order in which the calls of the batch settled
  bpc,                \* summarizeEmails: position in its code
  emailMap,           \* getMessageTrace: the Map, entries in insertion order
  tracePc,            \* getMessageTrace: position in its code
  traceMailboxes,     \* getMessageTrace: the mailboxes of method 3
  traceOffset,        \* getMessageTrace: the loop variable i of method 3
  inboxPending,       \* the mailbox queries of the batch not yet settled
  failed,             \* the collection methods that have failed
  traceResult,        \* what getMessageTrace returned
  fetchedEmails,      \* runDailySummary: what fetchEmails resolved to
  organizeAt,         \* runDailySummary: position of emails.forEach
  processedEmailIds,  \* runDailySummary: the Set of that name
  organizedLog,       \* the ids whose email was organized, in order
  sentSummaries,      \* what sendSummaryEmail was called with
  dailyPc             \* runDailySummary: position in its code

classifierVars ==
  <<message, pc, callee, ret, debugLog, reLastIndex, history, nCalls>>

fetchVars ==
  <<mailbox, filtering, stage, allEmails, filteredEmails, cursor,
    employeesGiven, sentItems, searchHits>>

draftVars ==
  <<manager, callArgs, run, dpc, salespeople, user_email, pending, counters,
    outbox, drafts_created, batchOutcome, handled>>

\* no contact is being handled
NoContact == [call |-> "none"]

summarizeVars ==
  <<apiKey, toSummarize, sumPc, simpleSummary, aiOutcome, settled>>

batchVars ==
  <<emailsByEmployee, summaries, entryIndex, offset, calls, settleOrder, bpc>>

traceVars ==
  <<emailMap, tracePc, traceMailboxes, traceOffset, inboxPending, failed,
    traceResult>>

dailyVars ==
  <<fetchedEmails, organizeAt, processedEmailIds, organizedLog,
    sentSummaries, dailyPc>>

vars ==
  <<trusted, classifierVars, fetchVars, draftVars, summarizeVars, batchVars,
    traceVars, dailyVars>>

NoOutcome == [kind |-> "none"]

\* no summarizeEmail call has been made
SummarizeIdle ==
  /\ apiKey = TRUE
  /\ toSummarize = <<>>
  /\ sumPc = "idle"
  /\ simpleSummary = ""
  /\ aiOutcome = NoOutcome
  /\ settled = NoOutcome

\* getMessageTrace has not been called
TraceIdle ==
  /\ emailMap = <<>>
  /\ tracePc = "idle"
  /\ traceMailboxes = <<>>
  /\ traceOffset = 0
  /\ inboxPending = {}
  /\ failed = {}
  /\ traceResult = <<>>

\* runDailySummary has not been called
DailyIdle ==
  /\ fetchedEmails = <<>>
  /\ organizeAt = 0
  /\ processedEmailIds = {}
  /\ organizedLog = <<>>
  /\ sentSummaries = NoOutcome
  /\ dailyPc = "idle"

\* summarizeEmails has not been called
BatchIdle ==
  /\ emailsByEmployee = <<>>
  /\ summaries = <<>>
  /\ entryIndex = 0
  /\ offset = 0
  /\ calls = <<>>
  /\ settleOrder = <<>>
  /\ bpc = "idle"

NoCounters ==
  [total_for_user |-> 0, sent_for_user |-> 0, drafted_for_user |-> 0]

\* no EmailManager has been constructed
DraftIdle ==
  /\ manager = [auto_send |-> FALSE, sandbox_mode |-> TRUE, validator |-> TRUE]
  /\ callArgs = [auto_send_enabled |-> "omitted", sandbox_mode |-> "omitted",
                 max_per_salesperson |-> 0]
  /\ run = [auto_send_enabled |-> FALSE, sandbox_mode |-> TRUE]
  /\ dpc = "idle"
  /\ salespeople = <<>>
  /\ user_email = ""
  /\ pending = 0
  /\ counters = NoCounters
  /\ outbox = <<>>
  /\ drafts_created = <<>>
  /\ batchOutcome = "none"
  /\ handled = NoContact

NoRet == [kind |-> "none", value |-> FALSE, path |-> "none"]

Completion(r) == [kind |-> r.kind, value |-> r.value, path |-> r.path]

Init ==
  /\ message \in Emails
  /\ trusted \in TrustedSets
  /\ pc = "ready"
  /\ callee = "none"
  /\ ret = NoRet
  /\ debugLog = <<>>
  /\ reLastIndex = 0
  /\ history = <<>>
  /\ nCalls = 0
  /\ mailbox = <<>>
  /\ filtering = TRUE
  /\ stage = "idle"
  /\ allEmails = <<>>
  /\ filteredEmails = <<>>
  /\ cursor = 0
  /\ employeesGiven = TRUE
  /\ sentItems = <<>>
  /\ searchHits = <<>>
  /\ DraftIdle
  /\ SummarizeIdle
  /\ BatchIdle
  /\ TraceIdle
  /\ DailyIdle

Called(fn, r) ==
  Append(history,
         [email |-> message, callee |-> fn, completion |-> Completion(r)])

CallIsLikelyUnwantedEmail ==
  /\ pc = "ready"
  /\ LET r == isLikelyUnwantedEmail(message, trusted, reLastIndex)
     IN  /\ ret' = Completion(r)
         /\ debugLog' = debugLog \o r.logged
         /\ reLastIndex' = r.lastIndex
         /\ history' = Called("isLikelyUnwantedEmail", r)
  /\ callee' = "isLikelyUnwantedEmail"
  /\ pc' = "returned"
  /\ nCalls' = nCalls + 1
  /\ UNCHANGED <<message, trusted, fetchVars, draftVars, summarizeVars, batchVars, traceVars, dailyVars>>

CallIsObviouslyAdvertisement ==
  /\ pc = "ready"
  /\ LET r == isObviouslyAdvertisement(message)
     IN  /\ ret' = Completion(r)
         /\ history' = Called("isObviouslyAdvertisement", r)
  /\ callee' = "isObviouslyAdvertisement"
  /\ pc' = "returned"
  /\ nCalls' = nCalls + 1
  /\ UNCHANGED <<message, trusted, debugLog, reLastIndex, fetchVars, draftVars, summarizeVars, batchVars, traceVars, dailyVars>>

\* the caller (or another caller) moves on to a message: one classified
\* before, or another one
NextMessage ==
  /\ pc = "returned"
  /\ nCalls < MaxCalls
  /\ message' \in {history[n].email : n \in DOMAIN history} \cup OtherEmails
  /\ pc' = "ready"
  /\ UNCHANGED <<trusted, callee, ret, debugLog, reLastIndex, history,
                 nCalls, fetchVars, draftVars, summarizeVars, batchVars, traceVars, dailyVars>>

Next ==
  \/ CallIsLikelyUnwantedEmail
  \/ CallIsObviouslyAdvertisement
  \/ NextMessage

Spec == Init /\ [][Next]_vars

(* fetchEmails: processing of the received messages, the draft filter and *)
(* the spam filter                                                         *)

\* number of messages the mail API answers with
MaxMailbox == 1

FetchTrustedSets == {{}, {"Jane@Company.com", "bob@sendgrid.net"}}

\* process.env.MICROSOFT_USER_EMAIL
userEmail == "jane@company.com"

\* the from field of a message of the mail API
GraphSenders ==
  {[emailAddress |-> [address |-> a, name |-> "Sender"]] :
     a \in {"jane@company.com", "promo@mailchimp.com"}}

GraphMessages ==
  {Field("subject", s) @@ Field("from", f) @@ Field("bodyPreview", b)
     @@ [isDraft |-> d] :
     s \in Optional({"Newsletter"}), f \in Optional(GraphSenders),
     b \in Optional({"To unsubscribe reply"}), d \in BOOLEAN}

\* the answers of the mail API: the message at position n has the id n
Mailboxes ==
  UNION {[1..n -> GraphMessages] : n \in 0..MaxMailbox}

\* x || d for a field x of o that may be absent or empty
OrDefault(o, f, d) == IF f \in DOMAIN o /\ o[f] # "" THEN o[f] ELSE d

\* the object the map callback over the received messages builds
receivedEmail(id, email) ==
  [id        |-> id,
   subject   |-> OrDefault(email, "subject", "(No Subject)"),
   from      |-> [text    |-> OrDefault(email.from.emailAddress, "name",
                                        email.from.emailAddress.address),
                  address |-> email.from.emailAddress.address],
   text      |-> OrDefault(email, "bodyPreview", ""),
   direction |-> "received",
   isDraft   |-> email.isDraft]

\* (receivedResponse.value || []).map(...).filter(email => email !== null):
\* a message without from data is skipped
RECURSIVE receivedEmails(_, _)
receivedEmails(value, n) ==
  IF n > Len(value) THEN <<>>
  ELSE IF "from" \notin DOMAIN value[n]
         \/ "emailAddress" \notin DOMAIN value[n].from
    THEN receivedEmails(value, n + 1)
    ELSE <<receivedEmail(n, value[n])>> \o receivedEmails(value, n + 1)

\* a message of the sent items, or of a search, as the mail API gives it
graphMessageFrom(id, address, recipients) ==
  [id |-> id, isDraft |-> FALSE,
   from |-> [emailAddress |-> [address |-> address, name |-> "Sender"]],
   toRecipients |->
     [k \in 1..recipients |->
        [emailAddress |-> [address |-> "info@vendor.org",
                           name |-> "Vendor"]]]]

\* sentResponse.value: nothing, or the message that is also the first of
\* the received answer and a message without recipients
SentResponses ==
  {<<>>, <<graphMessageFrom(1, userEmail, 1),
           graphMessageFrom(101, userEmail, 0)>>}

\* what the searches for the other employees find, joined: nothing, or a
\* sent message with the id of the first received one and a message of
\* another sender
SearchResults ==
  {<<>>, <<graphMessageFrom(1, userEmail, 1),
           graphMessageFrom(102, "promo@mailchimp.com", 1)>>}

\* lines 1244-1248 and 1320-1323
hasRecipients(email) ==
  "toRecipients" \in DOMAIN email /\ Len(email.toRecipients) > 0

\* the object the map callback over the sent messages builds
sentEmail(email) ==
  [id        |-> email.id,
   subject   |-> OrDefault(email, "subject", "(No Subject)"),
   from      |-> [text    |-> OrDefault(email.from.emailAddress, "name",
                                        email.from.emailAddress.address),
                  address |-> email.from.emailAddress.address],
   text      |-> OrDefault(email, "bodyPreview", ""),
   direction |-> "sent",
   isDraft   |-> email.isDraft]

\* (sentResponse.value || []).map(...).filter(email => email !== null):
\* a message without recipients is skipped
sentEmails(value) ==
  LET kept == SelectSeq(value, hasRecipients)
  IN  [k \in 1..Len(kept) |-> sentEmail(kept[k])]

\* processedIds after the received and the sent messages: the ids of the
\* messages that were not skipped
processedIdsOf(received, sent) ==
  {n \in DOMAIN received :
     "from" \in DOMAIN received[n]
       /\ "emailAddress" \in DOMAIN received[n].from}
    \cup {sent[k].id : k \in {j \in DOMAIN sent : hasRecipients(sent[j])}}

\* line 1299: the employees whose emails are searched for
employeesToSearch(companyEmployees) ==
  {emp \in companyEmployees : toLowerCase(emp) # toLowerCase(userEmail)}

\* lines 1305-1399: a found message whose id is among the processed ones is
\* skipped, every other id is added to them, and the message is pushed as a
\* sent or as a received one
RECURSIVE additionalEmails(_, _)
additionalEmails(hits, processed) ==
  IF hits = <<>> THEN <<>>
  ELSE IF Head(hits).id \in processed
    THEN additionalEmails(Tail(hits), processed)
  ELSE LET found == Head(hits)
           rest == additionalEmails(Tail(hits), processed \cup {found.id})
       IN  IF toLowerCase(found.from.emailAddress.address)
                = toLowerCase(userEmail)
             THEN IF hasRecipients(found) THEN <<sentEmail(found)>> \o rest
                  ELSE rest
             ELSE <<receivedEmail(found.id, found)>> \o rest

\* line 1403: [...receivedEmails, ...sentEmails, ...additionalEmails]
combinedEmails(received, sent, hits) ==
  receivedEmails(received, 1) \o sentEmails(sent)
    \o additionalEmails(hits, processedIdsOf(received, sent))

withoutDraftsKeepingAll(emails) == emails

\* allEmails.filter(email => !email.isDraft)
withoutDrafts(emails) == SelectSeq(emails, LAMBDA e : ~e.isDraft)

\* the test of the filter callback for a company sender; fromAddress is
\* lower-cased by the caller
senderIsCompanyEmployeeCaseSensitive(fromAddress, companyEmployees) ==
  \E employee \in companyEmployees : employee = fromAddress

senderIsCompanyEmployee(fromAddress, companyEmployees) ==
  \E employee \in companyEmployees : toLowerCase(employee) = fromAddress

\* what the filter callback returns for the completion of the classifier
\* it called
keepsUnnegated(verdict) == verdict

keeps(verdict) == ~verdict

InitFetch ==
  /\ mailbox \in Mailboxes
  /\ trusted \in FetchTrustedSets
  /\ sentItems \in SentResponses
  /\ searchHits \in (IF employeesToSearch(trusted) = {} THEN {<<>>}
                      ELSE SearchResults)
  /\ employeesGiven \in (IF trusted = {} THEN BOOLEAN ELSE {TRUE})
  /\ filtering \in BOOLEAN
  /\ stage = "fetched"
  /\ allEmails = <<>>
  /\ filteredEmails = <<>>
  /\ cursor = 0
  /\ message = <<>>
  /\ pc = "idle"
  /\ callee = "none"
  /\ ret = NoRet
  /\ debugLog = <<>>
  /\ reLastIndex = 0
  /\ history = <<>>
  /\ nCalls = 0
  /\ DraftIdle
  /\ SummarizeIdle
  /\ BatchIdle
  /\ TraceIdle
  /\ DailyIdle

\* The received, sent and found messages are processed, combined, and the
\* drafts removed.
\* With companyEmployees undefined, companyEmployees.some (in the map
\* callback) or companyEmployees.filter (at the employee loop) throws a
\* TypeError, which the catch block logs and throws again.
CombineEmails ==
  /\ stage = "fetched"
  /\ IF employeesGiven
       THEN /\ allEmails' = withoutDrafts(
                   combinedEmails(mailbox, sentItems, searchHits))
            /\ filteredEmails' = IF filtering THEN <<>> ELSE allEmails'
            /\ cursor' = 1
            /\ stage' = IF filtering THEN "filtering" ELSE "filtered"
       ELSE /\ stage' = "threw"
            /\ UNCHANGED <<allEmails, filteredEmails, cursor>>
  /\ UNCHANGED <<trusted, mailbox, filtering, employeesGiven, sentItems,
                 searchHits, classifierVars, draftVars, summarizeVars, batchVars, traceVars, dailyVars>>

\* one call of the callback of allEmails.filter
FilterEmail ==
  /\ stage = "filtering"
  /\ cursor <= Len(allEmails)
  /\ LET email == allEmails[cursor]
         fromAddress == toLowerCase(email.from.address)
     IN  /\ message' = email
         /\ IF senderIsCompanyEmployee(fromAddress, trusted)
              THEN /\ callee' = "isObviouslyAdvertisement"
                   /\ ret' = Completion(isObviouslyAdvertisement(email))
                   /\ UNCHANGED <<debugLog, reLastIndex>>
              ELSE LET r == isLikelyUnwantedEmail(email, trusted, reLastIndex)
                   IN  /\ callee' = "isLikelyUnwantedEmail"
                       /\ ret' = Completion(r)
                       /\ debugLog' = debugLog \o r.logged
                       /\ reLastIndex' = r.lastIndex
         /\ history' = Append(history, [email |-> email, callee |-> callee',
                                        completion |-> ret'])
         /\ filteredEmails' = IF keeps(ret'.value)
                                THEN Append(filteredEmails, email)
                                ELSE filteredEmails
  /\ pc' = "returned"
  /\ nCalls' = nCalls + 1
  /\ cursor' = cursor + 1
  /\ UNCHANGED <<trusted, mailbox, filtering, stage, allEmails,
                 employeesGiven, sentItems, searchHits, draftVars, summarizeVars, batchVars, traceVars, dailyVars>>

\* the filter has been through all the messages
FilterEnd ==
  /\ stage = "filtering"
  /\ cursor > Len(allEmails)
  /\ stage' = "filtered"
  /\ UNCHANGED <<trusted, mailbox, filtering, allEmails, filteredEmails,
                 cursor, employeesGiven, sentItems, searchHits,
                 classifierVars, draftVars, summarizeVars, batchVars, traceVars, dailyVars>>

\* fetchEmails logs the counts and returns filteredEmails
ReturnEmails ==
  /\ stage = "filtered"
  /\ stage' = "done"
  /\ UNCHANGED <<trusted, mailbox, filtering, allEmails, filteredEmails,
                 cursor, employeesGiven, sentItems, searchHits,
                 classifierVars, draftVars, summarizeVars, batchVars, traceVars, dailyVars>>

NextFetch ==
  \/ CombineEmails
  \/ FilterEmail
  \/ FilterEnd
  \/ ReturnEmails

SpecFetch == InitFetch /\ [][NextFetch]_vars

(* EmailManager.create_draft_emails.  The indentation of the source file  *)
(* is damaged; its statements are read with the nesting that the pairing  *)
(* of their if, else, try and except lines gives.                         *)

\* largest max_per_salesperson of a call
MaxQuota == 1

\* the most contacts the database holds for one salesperson
MaxContacts == 2

\* the keys of EMAIL_USERS, a setting of app.config
EMAIL_USERS == <<"alice@gbl-data.com", "bob@gbl-data.com">>

SandboxAddress == "jared@gbl-data.com"

\* contact.email, one address for every contact
ContactAddress == "contact@prospect.org"

\* an optional argument of a call: left out, None, or a value
Overrides == {"omitted", "None", "True", "False"}

\* sandbox_mode after "if sandbox_mode is None"; the parameter's default
\* value is True
sandboxModeOf(given, instance) ==
  CASE given = "omitted" -> TRUE
    [] given = "None"    -> instance
    [] OTHER             -> given = "True"

\* auto_send_enabled after "if auto_send_enabled is None"; the parameter's
\* default value is None
autoSendOf(given, instance) ==
  IF given \in {"omitted", "None"} THEN instance ELSE given = "True"

\* what the validator hands over for one contact
ValidationData ==
  [auto_send : BOOLEAN, trigger_no_name_email : BOOLEAN, error : BOOLEAN,
   organization : BOOLEAN]

\* "Stop if user limit reached"
limitReachedAbove(total_for_user, max_per_salesperson) ==
  total_for_user > max_per_salesperson

limitReached(total_for_user, max_per_salesperson) ==
  total_for_user >= max_per_salesperson

\* action of the normal processing
actionOf(validation_data, auto_send_enabled) ==
  IF validation_data.auto_send /\ auto_send_enabled THEN "send" ELSE "draft"

\* recipient_email: the no-name branch and the send branch redirect in
\* sandbox mode, the draft branch does not
recipientOf(validation_data, auto_send_enabled, sandbox_mode) ==
  IF validation_data.trigger_no_name_email
    THEN IF sandbox_mode THEN SandboxAddress ELSE ContactAddress
  ELSE IF actionOf(validation_data, auto_send_enabled) = "send"
    THEN IF sandbox_mode THEN SandboxAddress ELSE ContactAddress
  ELSE ContactAddress

clientCallOfInSandboxToo(validation_data, auto_send_enabled, sandbox_mode) ==
  IF ~validation_data.trigger_no_name_email
       /\ actionOf(validation_data, auto_send_enabled) = "send"
    THEN "send_email" ELSE "create_draft_email"

\* the call of the mail client that creates the email
clientCallOf(validation_data, auto_send_enabled, sandbox_mode) ==
  IF ~validation_data.trigger_no_name_email
       /\ actionOf(validation_data, auto_send_enabled) = "send"
       /\ ~sandbox_mode
    THEN "send_email" ELSE "create_draft_email"

InitDraft ==
  /\ manager \in [auto_send : BOOLEAN, sandbox_mode : BOOLEAN,
                   validator : BOOLEAN]
  /\ callArgs \in [auto_send_enabled : Overrides, sandbox_mode : Overrides,
                    max_per_salesperson : 0..MaxQuota]
  /\ run = [auto_send_enabled |-> FALSE, sandbox_mode |-> TRUE]
  /\ dpc = "ready"
  /\ salespeople = <<>>
  /\ user_email = ""
  /\ pending = 0
  /\ counters = NoCounters
  /\ outbox = <<>>
  /\ drafts_created = <<>>
  /\ batchOutcome = "none"
  /\ handled = NoContact
  /\ trusted = {}
  /\ message = <<>>
  /\ pc = "idle"
  /\ callee = "none"
  /\ ret = NoRet
  /\ debugLog = <<>>
  /\ reLastIndex = 0
  /\ history = <<>>
  /\ nCalls = 0
  /\ mailbox = <<>>
  /\ filtering = TRUE
  /\ stage = "idle"
  /\ allEmails = <<>>
  /\ filteredEmails = <<>>
  /\ cursor = 0
  /\ employeesGiven = TRUE
  /\ sentItems = <<>>
  /\ searchHits = <<>>
  /\ SummarizeIdle
  /\ BatchIdle
  /\ TraceIdle
  /\ DailyIdle

otherVars == <<trusted, classifierVars, fetchVars, summarizeVars, batchVars, traceVars, dailyVars>>

\* the counts of a salesperson in drafts_created
countsOf(email, total, sent, drafted) ==
  (email :> total) @@ ((email \o "_sent") :> sent)
    @@ ((email \o "_draft") :> drafted)

\* lines 94-140: the overrides are resolved, the validator and the clients
\* are checked, the counts are set to zero
CallCreateDraftEmails ==
  /\ dpc = "ready"
  /\ run' = [auto_send_enabled |->
               autoSendOf(callArgs.auto_send_enabled, manager.auto_send),
             sandbox_mode |->
               sandboxModeOf(callArgs.sandbox_mode, manager.sandbox_mode)]
  /\ \E clientsReady \in BOOLEAN :
       IF manager.validator /\ clientsReady
         THEN /\ drafts_created' =
                   countsOf(EMAIL_USERS[1], 0, 0, 0)
                     @@ countsOf(EMAIL_USERS[2], 0, 0, 0)
              /\ salespeople' = EMAIL_USERS
              /\ dpc' = "users"
         ELSE /\ drafts_created' = <<>>
              /\ salespeople' = <<>>
              /\ dpc' = "returned"
  /\ UNCHANGED <<manager, callArgs, user_email, pending, counters, outbox,
                 batchOutcome, handled, otherVars>>

\* lines 154-159: get_contacts_for_email_draft is asked for twice the quota
\* and returns at most what the database holds
fetchLimit(max_per_salesperson) ==
  IF max_per_salesperson * 2 < MaxContacts
    THEN max_per_salesperson * 2 ELSE MaxContacts

\* what can become of a salesperson's batch: no contacts to process, the
\* validation of the batch raises, or the batch is validated
BatchOutcomes == {"no_contacts", "validation_raised", "validated"}

\* lines 143-181: the next salesperson; without contacts, or when the
\* validation of the batch raises, the salesperson is passed over
NextSalesperson ==
  /\ dpc = "users"
  /\ salespeople # <<>>
  /\ user_email' = Head(salespeople)
  /\ salespeople' = Tail(salespeople)
  /\ counters' = NoCounters
  /\ handled' = NoContact
  /\ \E n \in 0..fetchLimit(callArgs.max_per_salesperson),
        outcome \in BatchOutcomes :
       /\ (n = 0) = (outcome = "no_contacts")
       /\ batchOutcome' = outcome
       /\ IF outcome = "validated"
            THEN pending' = n /\ dpc' = "contacts"
            ELSE pending' = 0 /\ dpc' = "users"
  /\ UNCHANGED <<manager, callArgs, run, outbox, drafts_created, otherVars>>

\* what the mail client's call comes to: the body could not be generated
\* and the client was not reached, the call raises, it returns no id, or it
\* returns the id of the created email
ClientOutcomes == {"unreached", "raise", "", "id"}

skipsContactOnErrorOnly(validation_data) == validation_data.error

\* lines 196-202: a contact with a validation error or without organization
\* data is passed over
skipsContact(validation_data) ==
  validation_data.error \/ ~validation_data.organization

statusCallOfDraftAlways(call) == "update_contact_draft_status"

\* lines 227-231 and 270-275: the status update that follows a returned id
statusCallOf(call) ==
  IF call = "send_email" THEN "update_contact_sent_status"
  ELSE "update_contact_draft_status"

\* lines 184-282: one iteration of the loop over the validation results
ProcessContact ==
  /\ dpc = "contacts"
  /\ pending > 0
  /\ ~limitReached(counters.total_for_user, callArgs.max_per_salesperson)
  /\ pending' = pending - 1
  /\ \E validation_data \in ValidationData,
        email_id \in ClientOutcomes, update_raises \in BOOLEAN :
       LET call == clientCallOf(validation_data, run.auto_send_enabled,
                                run.sandbox_mode)
           recipient == recipientOf(validation_data, run.auto_send_enabled,
                                    run.sandbox_mode)
       IN  IF skipsContact(validation_data)
             THEN /\ email_id = "unreached" /\ ~update_raises
                  /\ handled' = [validation_data |-> validation_data,
                                  call |-> "none", email_id |-> email_id,
                                  status_call |-> "none", raised |-> FALSE]
                  /\ UNCHANGED <<counters, outbox>>
           ELSE IF email_id # "id"
             THEN /\ ~update_raises
                  /\ handled' =
                       [validation_data |-> validation_data,
                        call |-> IF email_id = "unreached" THEN "none"
                                 ELSE call,
                        email_id |-> email_id,
                        status_call |-> "none",
                        raised |-> email_id \in {"unreached", "raise"}]
                  /\ UNCHANGED <<counters, outbox>>
           ELSE /\ handled' = [validation_data |-> validation_data,
                                call |-> call, email_id |-> email_id,
                                status_call |-> statusCallOf(call),
                                raised |-> update_raises]
                /\ outbox' = Append(outbox,
                     [user      |-> user_email,
                      recipient |-> recipient,
                      call      |-> call,
                      no_name   |-> validation_data.trigger_no_name_email])
                /\ counters' =
                     [total_for_user   |-> counters.total_for_user + 1,
                      sent_for_user    |-> counters.sent_for_user
                        + (IF call = "send_email" THEN 1 ELSE 0),
                      drafted_for_user |-> counters.drafted_for_user
                        + (IF call = "send_email" THEN 0 ELSE 1)]
  /\ UNCHANGED <<manager, callArgs, run, dpc, salespeople, user_email,
                 drafts_created, batchOutcome, otherVars>>

\* lines 186-188 and 285-289: the loop ends, at the limit or at the last
\* result, and the counts of the salesperson are stored
FinishSalesperson ==
  /\ dpc = "contacts"
  /\ \/ pending = 0
     \/ limitReached(counters.total_for_user, callArgs.max_per_salesperson)
  /\ drafts_created' =
       countsOf(user_email, counters.total_for_user, counters.sent_for_user,
                counters.drafted_for_user) @@ drafts_created
  /\ dpc' = "users"
  /\ handled' = NoContact
  /\ UNCHANGED <<manager, callArgs, run, salespeople, user_email, pending,
                 counters, outbox, batchOutcome, otherVars>>

RECURSIVE sumOver(_, _, _)
sumOver(counts, suffix, n) ==
  IF n = 0 THEN 0
  ELSE counts[EMAIL_USERS[n] \o suffix] + sumOver(counts, suffix, n - 1)

\* lines 291-297: the totals are added and the dictionary is returned
ReturnCounts ==
  /\ dpc = "users"
  /\ salespeople = <<>>
  /\ drafts_created' =
       [total       |-> sumOver(drafts_created, "", Len(EMAIL_USERS)),
        total_sent  |-> sumOver(drafts_created, "_sent", Len(EMAIL_USERS)),
        total_draft |-> sumOver(drafts_created, "_draft", Len(EMAIL_USERS))]
         @@ drafts_created
  /\ dpc' = "returned"
  /\ UNCHANGED <<manager, callArgs, run, salespeople, user_email, pending,
                 counters, outbox, batchOutcome, handled, otherVars>>

NextDraft ==
  \/ CallCreateDraftEmails
  \/ NextSalesperson
  \/ ProcessContact
  \/ FinishSalesperson
  \/ ReturnCounts

SpecDraft == InitDraft /\ [][NextDraft]_vars

(* The summarizer: createSimpleSummary, formatSummary, summarizeEmail       *)

\* text.substring(0, 150)
SummaryLength == 150

IsSentenceEnd(c) == c \in {".", "!", "?"}

\* text.match(/^[^.!?]*[.!?]/): the text up to its first sentence end, or
\* "" for null
firstSentence(text) ==
  LET ends == {i \in 1..Len(text) : IsSentenceEnd(CharAt(text, i))}
  IN  IF ends = {} THEN ""
      ELSE SubSeq(text, 1, CHOOSE i \in ends : \A j \in ends : i <= j)

actionWords ==
  <<"please", "action", "required", "respond", "review", "confirm">>

createSimpleSummary(email) ==
  LET text == OrEmpty(email, "text")
      first == firstSentence(text)
      summary ==
        IF text = "" THEN "(No content available)"
        ELSE IF first # "" THEN trim(first)
        ELSE trim(Slice(text, 1, SummaryLength))
               \o (IF Len(text) > SummaryLength THEN "..." ELSE "")
  IN  IF \E w \in DOMAIN actionWords :
            includes(toLowerCase(text), actionWords[w])
        THEN summary \o " [Possible action required]"
        ELSE summary

sectionHeaders == <<"KEY POINTS", "ACTION ITEMS", "CONTEXT">>

\* the section header that s has at position i, compared in lower case or
\* exactly; 0 when there is none
headerAt(s, i, ignoreCase) ==
  LET found == {h \in DOMAIN sectionHeaders :
                  LET piece == Slice(s, i, i + Len(sectionHeaders[h]) - 1)
                  IN  IF ignoreCase
                        THEN toLowerCase(piece) = toLowerCase(sectionHeaders[h])
                        ELSE piece = sectionHeaders[h]}
  IN  IF found = {} THEN 0 ELSE CHOOSE h \in found : TRUE

\* first position at or after i where s has p, ignoring case; 0 without
RECURSIVE indexOfI(_, _, _)
indexOfI(s, p, i) ==
  IF i + Len(p) - 1 > Len(s) THEN 0
  ELSE IF toLowerCase(SubSeq(s, i, i + Len(p) - 1)) = toLowerCase(p) THEN i
  ELSE indexOfI(s, p, i + 1)

\* .replace(/^.*?KEY POINTS/i, 'KEY POINTS')
dropIntro(s) ==
  LET k == indexOfI(s, "KEY POINTS", 1)
  IN  IF k > 0 /\ \A j \in 1..(k - 1) : ~IsLineTerminator(CharAt(s, j))
        THEN "KEY POINTS" \o Slice(s, k + Len("KEY POINTS"), Len(s))
        ELSE s

\* .replace(/<\/?b>/g, '')
RECURSIVE dropBoldTags(_, _)
dropBoldTags(s, i) ==
  IF i > Len(s) THEN ""
  ELSE IF Slice(s, i, i + 2) = "<b>" THEN dropBoldTags(s, i + 3)
  ELSE IF Slice(s, i, i + 3) = "</b>" THEN dropBoldTags(s, i + 4)
  ELSE CharAt(s, i) \o dropBoldTags(s, i + 1)

IsDigit(c) == c \in {"0", "1", "2", "3", "4", "5", "6", "7", "8", "9"}

\* first position at or after i whose character is not of the class
RECURSIVE skipDigits(_, _)
skipDigits(s, i) ==
  IF i <= Len(s) /\ IsDigit(CharAt(s, i)) THEN skipDigits(s, i + 1) ELSE i

RECURSIVE skipWhiteSpace(_, _)
skipWhiteSpace(s, i) ==
  IF i <= Len(s) /\ IsWhiteSpace(CharAt(s, i))
    THEN skipWhiteSpace(s, i + 1) ELSE i

\* .replace(/\d+\.\s*(KEY POINTS|ACTION ITEMS|CONTEXT)/gi, '$1')
RECURSIVE dropNumbering(_, _)
dropNumbering(s, i) ==
  IF i > Len(s) THEN ""
  ELSE LET d == skipDigits(s, i)
           k == skipWhiteSpace(s, d + 1)
           h == headerAt(s, k, TRUE)
       IN  IF d > i /\ CharAt(s, d) = "." /\ h > 0
             THEN Slice(s, k, k + Len(sectionHeaders[h]) - 1)
                    \o dropNumbering(s, k + Len(sectionHeaders[h]))
             ELSE CharAt(s, i) \o dropNumbering(s, i + 1)

\* .replace(/\*\*(KEY POINTS|ACTION ITEMS|CONTEXT)\*\*/gi, '$1'), and
\* the same with one asterisk: mark is "**" or "*"
RECURSIVE dropAsterisks(_, _, _)
dropAsterisks(s, i, mark) ==
  IF i > Len(s) THEN ""
  ELSE LET k == i + Len(mark)
           h == headerAt(s, k, TRUE)
           e == IF h > 0 THEN k + Len(sectionHeaders[h]) ELSE 0
       IN  IF Slice(s, i, k - 1) = mark /\ h > 0
                /\ Slice(s, e, e + Len(mark) - 1) = mark
             THEN Slice(s, k, e - 1) \o dropAsterisks(s, e + Len(mark), mark)
             ELSE CharAt(s, i) \o dropAsterisks(s, i + 1, mark)

\* .replace(/key points/i, 'KEY POINTS'): the first occurrence only
upperFirst(s, header) ==
  LET k == indexOfI(s, header, 1)
  IN  IF k = 0 THEN s
      ELSE Slice(s, 1, k - 1) \o header \o Slice(s, k + Len(header), Len(s))

\* .replace(/(KEY POINTS|ACTION ITEMS|CONTEXT)/g, '\n\n$1\n')
RECURSIVE spaceSections(_, _)
spaceSections(s, i) ==
  IF i > Len(s) THEN ""
  ELSE LET h == headerAt(s, i, FALSE)
       IN  IF h > 0
             THEN "\n\n" \o sectionHeaders[h] \o "\n"
                    \o spaceSections(s, i + Len(sectionHeaders[h]))
             ELSE CharAt(s, i) \o spaceSections(s, i + 1)

RECURSIVE skipNewLines(_, _)
skipNewLines(s, i) ==
  IF i <= Len(s) /\ CharAt(s, i) = "\n" THEN skipNewLines(s, i + 1) ELSE i

\* .replace(/\n{3,}/g, '\n\n')
RECURSIVE squeezeNewLines(_, _)
squeezeNewLines(s, i) ==
  IF i > Len(s) THEN ""
  ELSE LET e == skipNewLines(s, i)
       IN  IF e - i >= 3 THEN "\n\n" \o squeezeNewLines(s, e)
           ELSE CharAt(s, i) \o squeezeNewLines(s, i + 1)

formatSummary(summaryText) ==
  IF summaryText = "" THEN summaryText
  ELSE LET a == dropIntro(summaryText)
           b == dropBoldTags(a, 1)
           c == dropNumbering(b, 1)
           d == dropAsterisks(c, 1, "**")
           e == dropAsterisks(d, 1, "*")
           f == upperFirst(e, "KEY POINTS")
           g == upperFirst(f, "ACTION ITEMS")
           h == upperFirst(g, "CONTEXT")
           k == spaceSections(h, 1)
       IN  trim(squeezeNewLines(k, 1))

\* a text of more than 150 characters without a sentence end
LongText ==
  LET ten == "ten chars "
      fifty == ten \o ten \o ten \o ten \o ten
  IN  fifty \o fifty \o fifty \o "and more"

SummaryEmails ==
  {[subject |-> "Deck"] @@ Field("text", t) @@ Field("html", h)
     @@ Field("from", f) :
     t \in Optional({"  ", "Please review the deck. Thanks",
                     "no punctuation here", LongText}),
     h \in Optional({"<p>Hi</p>"}),
     f \in Optional({[text |-> "Sender", address |-> "info@vendor.org"]})}

\* the texts that response.text() gives
AiTexts ==
  {"", "  ", "<b></b>", "KEY POINTS\nShip Friday",
   "**Key Points**\nShip Friday",
   "Sure: 1. key points\nship\n\n\n*Context*\nnone"}

\* formatSummary(summary) of each of them, trimmed as line 160 does
FormattedTexts == [t \in AiTexts |-> trim(formatSummary(t))]

\* what the generateContent call and response.text() can come to: a text,
\* no text at all, an error with a message, an error without one
AiOutcomes ==
  {[kind |-> "text", text |-> t] : t \in AiTexts}
    \cup {[kind |-> "undefined"]}
    \cup {[kind |-> "error", message |-> m] :
            m \in {"API key not valid", "SERVICE_DISABLED",
                   "deadline exceeded"}}
    \cup {[kind |-> "error"]}

\* email.text || email.html
emailContentOf(email) ==
  IF OrEmpty(email, "text") # "" THEN email.text ELSE OrEmpty(email, "html")

\* summarizeEmail up to its await: it returns, or it waits for the model.
\* Building the prompt reads email.from.text; without a from record that
\* throws inside the inner try, whose catch returns the simple summary.
summarizeEmailBeforeAwait(email, keyConfigured) ==
  IF trim(emailContentOf(email)) = ""
    THEN [kind |-> "return", value |-> "Empty email (no content)"]
  ELSE IF ~keyConfigured
    THEN [kind |-> "return", value |-> createSimpleSummary(email)]
  ELSE IF "from" \notin DOMAIN email
    THEN [kind |-> "return", value |-> createSimpleSummary(email)]
  ELSE [kind |-> "await", value |-> createSimpleSummary(email)]

summarizeEmailAfterAwaitKeepsEmpty(email, simple, ai) ==
  IF ai.kind = "text" THEN FormattedTexts[ai.text]
  ELSE simple

\* summarizeEmail after its await.  An error without a message makes the
\* inner catch throw at aiError.message.includes, and the outer catch
\* returns the failure text.
summarizeEmailAfterAwait(email, simple, ai) ==
  IF ai.kind = "text"
    THEN IF FormattedTexts[ai.text] # ""
           THEN FormattedTexts[ai.text]
           ELSE simple
  ELSE IF ai.kind = "undefined" THEN simple
  ELSE IF "message" \in DOMAIN ai THEN simple
  ELSE "Failed to summarize: " \o OrDefault(email, "subject", "undefined")

InitSummarize ==
  /\ apiKey \in BOOLEAN
  /\ toSummarize \in SummaryEmails
  /\ sumPc = "ready"
  /\ simpleSummary = ""
  /\ aiOutcome = NoOutcome
  /\ settled = NoOutcome
  /\ trusted = {}
  /\ message = <<>>
  /\ pc = "idle"
  /\ callee = "none"
  /\ ret = NoRet
  /\ debugLog = <<>>
  /\ reLastIndex = 0
  /\ history = <<>>
  /\ nCalls = 0
  /\ mailbox = <<>>
  /\ filtering = TRUE
  /\ stage = "idle"
  /\ allEmails = <<>>
  /\ filteredEmails = <<>>
  /\ cursor = 0
  /\ employeesGiven = TRUE
  /\ sentItems = <<>>
  /\ searchHits = <<>>
  /\ DraftIdle
  /\ BatchIdle
  /\ TraceIdle
  /\ DailyIdle

\* lines 88-146: the call, up to its return or its await
CallSummarizeEmail ==
  /\ sumPc = "ready"
  /\ LET r == summarizeEmailBeforeAwait(toSummarize, apiKey)
     IN  IF r.kind = "return"
           THEN /\ settled' = [kind |-> "resolve", value |-> r.value]
                /\ sumPc' = "settled"
                /\ UNCHANGED simpleSummary
           ELSE /\ simpleSummary' = r.value
                /\ sumPc' = "awaiting"
                /\ UNCHANGED settled
  /\ UNCHANGED <<apiKey, toSummarize, aiOutcome, trusted, classifierVars,
                 fetchVars, draftVars, batchVars, traceVars, dailyVars>>

\* lines 146-191: the model call settles and the function returns
AiSettles ==
  /\ sumPc = "awaiting"
  /\ \E ai \in AiOutcomes :
       /\ aiOutcome' = ai
       /\ settled' =
            [kind |-> "resolve",
             value |-> summarizeEmailAfterAwait(toSummarize, simpleSummary,
                                                ai)]
  /\ sumPc' = "settled"
  /\ UNCHANGED <<apiKey, toSummarize, simpleSummary, trusted,
                 classifierVars, fetchVars, draftVars, batchVars, traceVars, dailyVars>>

NextSummarize ==
  \/ CallSummarizeEmail
  \/ AiSettles

SpecSummarize == InitSummarize /\ [][NextSummarize]_vars

(* summarizeEmails: categories in turn, batches of five behind Promise.all *)

\* the most emails of the first category
MaxEmails == 6

\* the most emails of the second category
MaxOtherEmails == 2

\* const batchSize = 5
batchSize == 5

\* the emails of a category: told apart by subject and date
categoryEmails(n) ==
  [j \in 1..n |->
     [subject |-> "Message " \o ToString(j),
      date    |-> "day " \o ToString(j),
      text    |-> "Please review the deck. Thanks",
      from    |-> [text |-> "Sender", address |-> "info@vendor.org"]]]

\* what the generateContent call comes to in a run of summarizeEmails
BatchAiOutcomes ==
  {[kind |-> "text", text |-> "**Key Points**\nShip Friday"],
   [kind |-> "error", message |-> "deadline exceeded"]}

singleCallVars == <<toSummarize, sumPc, simpleSummary, aiOutcome, settled>>

InitBatch ==
  /\ apiKey \in BOOLEAN
  /\ \E n \in 0..MaxEmails, m \in 0..MaxOtherEmails :
       emailsByEmployee =
         <<[employee |-> "tim@gbl-data.com sent",
            emails |-> categoryEmails(n)],
           [employee |-> "tim@gbl-data.com received",
            emails |-> categoryEmails(m)]>>
  /\ summaries = <<>>
  /\ entryIndex = 0
  /\ offset = 0
  /\ calls = <<>>
  /\ settleOrder = <<>>
  /\ bpc = "ready"
  /\ toSummarize = <<>>
  /\ sumPc = "idle"
  /\ simpleSummary = ""
  /\ aiOutcome = NoOutcome
  /\ settled = NoOutcome
  /\ trusted = {}
  /\ message = <<>>
  /\ pc = "idle"
  /\ callee = "none"
  /\ ret = NoRet
  /\ debugLog = <<>>
  /\ reLastIndex = 0
  /\ history = <<>>
  /\ nCalls = 0
  /\ mailbox = <<>>
  /\ filtering = TRUE
  /\ stage = "idle"
  /\ allEmails = <<>>
  /\ filteredEmails = <<>>
  /\ cursor = 0
  /\ employeesGiven = TRUE
  /\ sentItems = <<>>
  /\ searchHits = <<>>
  /\ DraftIdle
  /\ TraceIdle
  /\ DailyIdle

restOfBatch ==
  <<apiKey, singleCallVars, trusted, classifierVars, fetchVars, draftVars,
    traceVars, dailyVars>>

sliceOfOneMore(emails, i) ==
  {j \in 1..Len(emails) : i < j /\ j <= i + batchSize + 1}

\* emails.slice(i, i + batchSize), as positions of emails
sliceOf(emails, i) ==
  {j \in 1..Len(emails) : i < j /\ j <= i + batchSize}

\* the positions of a set in ascending order
RECURSIVE ascending(_)
ascending(positions) ==
  IF positions = {} THEN <<>>
  ELSE LET least == CHOOSE j \in positions : \A k \in positions : j <= k
       IN  <<least>> \o ascending(positions \ {least})

\* lines 211-218: the async function of batch.map for one email, up to its
\* first suspension
startCall(email, keyConfigured) ==
  LET r == summarizeEmailBeforeAwait(email, keyConfigured)
  IN  IF r.kind = "return"
        THEN [state |-> "resolved", simple |-> "", summary |-> r.value]
        ELSE [state |-> "awaiting", simple |-> r.value, summary |-> ""]

\* lines 213-217: the object a summarizationPromise resolves to
resultOf(email, call) ==
  [subject |-> email.subject, date |-> email.date, summary |-> call.summary]

batchResultsInSettleOrder(emails, batchCalls, order) ==
  [j \in 1..Len(order) |->
     resultOf(emails[order[j]], batchCalls[order[j]])]

\* line 220: what Promise.all resolves to, the results in the order of the
\* promises
batchResults(emails, batchCalls, order) ==
  LET positions == ascending(DOMAIN batchCalls)
  IN  [j \in 1..Len(positions) |->
         resultOf(emails[positions[j]], batchCalls[positions[j]])]

\* the entry of Object.entries that is being processed
currentEntry == emailsByEmployee[entryIndex]

\* lines 197-201
CallSummarizeEmails ==
  /\ bpc = "ready"
  /\ summaries' = <<>>
  /\ entryIndex' = 1
  /\ bpc' = "category"
  /\ UNCHANGED <<emailsByEmployee, offset, calls, settleOrder, restOfBatch>>

\* lines 203-209: the next entry; a category without emails has no batch
EnterCategory ==
  /\ bpc = "category"
  /\ entryIndex <= Len(emailsByEmployee)
  /\ summaries' = (currentEntry.employee :> <<>>) @@ summaries
  /\ offset' = 0
  /\ IF currentEntry.emails = <<>>
       THEN entryIndex' = entryIndex + 1 /\ bpc' = "category"
       ELSE entryIndex' = entryIndex /\ bpc' = "batch"
  /\ UNCHANGED <<emailsByEmployee, calls, settleOrder, restOfBatch>>

\* lines 210-220: the batch is cut and a call is started for each of its
\* emails; the calls that return without awaiting are resolved at once
StartBatch ==
  /\ bpc = "batch"
  /\ calls' = [j \in sliceOf(currentEntry.emails, offset) |->
                 startCall(currentEntry.emails[j], apiKey)]
  /\ settleOrder' =
       ascending({j \in sliceOf(currentEntry.emails, offset) :
                    startCall(currentEntry.emails[j], apiKey).state
                      = "resolved"})
  /\ bpc' = "awaitAll"
  /\ UNCHANGED <<emailsByEmployee, summaries, entryIndex, offset,
                 restOfBatch>>

\* lines 146-191 for one call of the batch, whichever the model answers
\* first
AiSettlesCall ==
  /\ bpc = "awaitAll"
  /\ \E j \in DOMAIN calls, ai \in BatchAiOutcomes :
       /\ calls[j].state = "awaiting"
       /\ calls' = [calls EXCEPT ![j] =
            [state |-> "resolved", simple |-> @.simple,
             summary |-> summarizeEmailAfterAwait(currentEntry.emails[j],
                                                  @.simple, ai)]]
       /\ settleOrder' = Append(settleOrder, j)
  /\ UNCHANGED <<emailsByEmployee, summaries, entryIndex, offset, bpc,
                 restOfBatch>>

\* lines 220-227: Promise.all resolves once every call has; the results
\* are pushed, and either the delay before the next batch starts or the
\* category is done
BatchResolves ==
  /\ bpc = "awaitAll"
  /\ \A j \in DOMAIN calls : calls[j].state = "resolved"
  /\ summaries' = [summaries EXCEPT ![currentEntry.employee] =
       @ \o batchResults(currentEntry.emails, calls, settleOrder)]
  /\ calls' = <<>>
  /\ IF offset + batchSize < Len(currentEntry.emails)
       THEN entryIndex' = entryIndex /\ bpc' = "delay"
       ELSE entryIndex' = entryIndex + 1 /\ bpc' = "category"
  /\ UNCHANGED <<emailsByEmployee, offset, settleOrder, restOfBatch>>

\* lines 225 and 209: the delay is over, i += batchSize
DelayElapses ==
  /\ bpc = "delay"
  /\ offset' = offset + batchSize
  /\ bpc' = "batch"
  /\ UNCHANGED <<emailsByEmployee, summaries, entryIndex, calls,
                 settleOrder, restOfBatch>>

\* lines 230-232
ReturnSummaries ==
  /\ bpc = "category"
  /\ entryIndex > Len(emailsByEmployee)
  /\ bpc' = "returned"
  /\ UNCHANGED <<emailsByEmployee, summaries, entryIndex, offset, calls,
                 settleOrder, restOfBatch>>

NextBatch ==
  \/ CallSummarizeEmails
  \/ EnterCategory
  \/ StartBatch
  \/ AiSettlesCall
  \/ BatchResolves
  \/ DelayElapses
  \/ ReturnSummaries

SpecBatch == InitBatch /\ [][NextBatch]_vars

(* getMessageTrace: five collection methods into one Map                  *)

\* the number of different messages of the sender
MaxTraced == 2

\* the most messages in one response
MaxResponse == 1

\* neither the classifier nor fetchEmails has been called
ClassifierAndFetchIdle ==
  /\ trusted = {}
  /\ message = <<>>
  /\ pc = "idle"
  /\ callee = "none"
  /\ ret = NoRet
  /\ debugLog = <<>>
  /\ reLastIndex = 0
  /\ history = <<>>
  /\ nCalls = 0
  /\ mailbox = <<>>
  /\ filtering = TRUE
  /\ stage = "idle"
  /\ allEmails = <<>>
  /\ filteredEmails = <<>>
  /\ cursor = 0
  /\ employeesGiven = TRUE
  /\ sentItems = <<>>
  /\ searchHits = <<>>

senderAddress == "marc@gbl-data.com"

\* a message of the sender as the Graph API gives it; the sent items query
\* selects sentDateTime, the other queries do not
traceMessage(n, withSent) ==
  [id |-> "message " \o ToString(n), receivedDateTime |-> 2 * n]
    @@ (IF withSent THEN [sentDateTime |-> 2 * n - 1] ELSE <<>>)

\* the value of a response: up to MaxResponse messages, repeats included
responseValues(withSent) ==
  UNION {[1..len -> {traceMessage(n, withSent) : n \in 1..MaxTraced}] :
           len \in 0..MaxResponse}

\* what a query comes to: it raises, it gives a response without value, or
\* a response with a value
QueryOutcomes(withSent) ==
  {[kind |-> "raise"], [kind |-> "empty"]}
    \cup {[kind |-> "value", value |-> v] : v \in responseValues(withSent)}

\* lines 46-72, the fields that tell entries apart
formatEmailMessage(msg, source) ==
  [id |-> msg.id, source |-> source, direction |-> "sent",
   date |-> IF "sentDateTime" \in DOMAIN msg THEN msg.sentDateTime
            ELSE msg.receivedDateTime]

\* emailMap.has(id)
mapHas(map, id) == \E k \in DOMAIN map : map[k].id = id

\* emailMap.set(id, entry): a new key goes to the end, a known key keeps
\* its place and takes the new value
mapSet(map, entry) ==
  IF mapHas(map, entry.id)
    THEN [k \in DOMAIN map |->
            IF map[k].id = entry.id THEN entry ELSE map[k]]
    ELSE Append(map, entry)

\* lines 126-128: every message of the sent items is set
RECURSIVE setAll(_, _, _)
setAll(map, value, source) ==
  IF value = <<>> THEN map
  ELSE setAll(mapSet(map, formatEmailMessage(Head(value), source)),
              Tail(value), source)

setIfNewOverwriting(map, entry) == mapSet(map, entry)

\* lines 178-180, 217-219, 248-250: if (!emailMap.has(message.id)) set
setIfNew(map, entry) ==
  IF mapHas(map, entry.id) THEN map ELSE mapSet(map, entry)

\* lines 177-181, 216-220, 247-251: a message is set unless its id is known
RECURSIVE setAllNew(_, _, _)
setAllNew(map, value, source) ==
  IF value = <<>> THEN map
  ELSE setAllNew(setIfNew(map, formatEmailMessage(Head(value), source)),
                 Tail(value), source)

\* lines 143-152
fallbackMailboxes ==
  <<"jared@gbl-data.com", "tim@gbl-data.com", "clint@gbl-data.com",
    "rebeca@gbl-data.com", "john@gbl-data.com", "darren@gbl-data.com",
    "galina@gbl-data.com", "sales@gbl-data.com">>

\* the users method 1 can come to, after its filter
UserLists == {<<>>, <<"tim@gbl-data.com", "Marc@GBL-Data.com">>}

\* lines 141-155
mailboxesOf(allUsers) ==
  SelectSeq(IF Len(allUsers) > 0 THEN allUsers ELSE fallbackMailboxes,
            LAMBDA box : toLowerCase(box) # toLowerCase(senderAddress))

\* const BATCH_SIZE = 5
BATCH_SIZE == 5

\* mailboxes.slice(i, i + BATCH_SIZE)
traceBatch(boxes, i) ==
  {boxes[k] : k \in {j \in 1..Len(boxes) : i < j /\ j <= i + BATCH_SIZE}}

\* lines 258-259: the values of the Map, latest first; the sort is stable
RECURSIVE sortByDateDesc(_)
sortByDateDesc(entries) ==
  IF entries = <<>> THEN <<>>
  ELSE LET latest == CHOOSE k \in DOMAIN entries :
                       /\ \A j \in DOMAIN entries :
                            entries[j].date <= entries[k].date
                       /\ \A j \in 1..(k - 1) :
                            entries[j].date < entries[k].date
           rest == [j \in 1..(Len(entries) - 1) |->
                      IF j < latest THEN entries[j] ELSE entries[j + 1]]
       IN  <<entries[latest]>> \o sortByDateDesc(rest)

InitTrace ==
  /\ emailMap = <<>>
  /\ tracePc = "ready"
  /\ traceMailboxes = <<>>
  /\ traceOffset = 0
  /\ inboxPending = {}
  /\ failed = {}
  /\ traceResult = <<>>
  /\ ClassifierAndFetchIdle
  /\ DraftIdle
  /\ SummarizeIdle
  /\ BatchIdle
  /\ DailyIdle

restOfTrace ==
  <<trusted, classifierVars, fetchVars, draftVars, summarizeVars, batchVars,
    dailyVars>>

\* lines 83-89: the client is created; a failure here is rethrown by the
\* outer catch
CallGetMessageTrace ==
  /\ tracePc = "ready"
  /\ \E clientCreated \in BOOLEAN :
       tracePc' = IF clientCreated THEN "users" ELSE "threw"
  /\ emailMap' = <<>>
  /\ UNCHANGED <<traceMailboxes, traceOffset, inboxPending, failed,
                 traceResult, restOfTrace>>

\* lines 91-111 and 141-155: method 1 settles and the mailboxes of method 3
\* follow from it
UsersSettle ==
  /\ tracePc = "users"
  /\ \E raises \in BOOLEAN, allUsers \in UserLists :
       /\ raises => allUsers = <<>>
       /\ failed' = IF raises THEN failed \cup {"users"} ELSE failed
       /\ traceMailboxes' = mailboxesOf(allUsers)
  /\ tracePc' = "sent_items"
  /\ UNCHANGED <<emailMap, traceOffset, inboxPending, traceResult,
                 restOfTrace>>

\* lines 113-134 and 158-164: method 2 settles, and the queries of the first
\* batch of mailboxes start
SentItemsSettle ==
  /\ tracePc = "sent_items"
  /\ \E response \in QueryOutcomes(TRUE) :
       /\ emailMap' = IF response.kind = "value"
                         THEN setAll(emailMap, response.value, "sent_items")
                         ELSE emailMap
       /\ failed' = IF response.kind = "raise"
                       THEN failed \cup {"sent_items"} ELSE failed
  /\ traceOffset' = 0
  /\ inboxPending' = traceBatch(traceMailboxes, 0)
  /\ tracePc' = "inboxes"
  /\ UNCHANGED <<traceMailboxes, traceResult, restOfTrace>>

\* lines 168-191: the query of one mailbox of the batch settles, in
\* whatever order
InboxSettles ==
  /\ tracePc = "inboxes"
  /\ \E box \in inboxPending, response \in QueryOutcomes(FALSE) :
       /\ emailMap' = IF response.kind = "value"
                         THEN setAllNew(emailMap, response.value,
                                        box \o "_inbox")
                         ELSE emailMap
       /\ failed' = IF response.kind = "raise"
                       THEN failed \cup {"inbox"} ELSE failed
       /\ inboxPending' = inboxPending \ {box}
  /\ UNCHANGED <<tracePc, traceMailboxes, traceOffset, traceResult,
                 restOfTrace>>

\* lines 159-164 and 195: Promise.all resolves and the next batch starts
NextInboxBatch ==
  /\ tracePc = "inboxes"
  /\ inboxPending = {}
  /\ traceOffset + BATCH_SIZE < Len(traceMailboxes)
  /\ traceOffset' = traceOffset + BATCH_SIZE
  /\ inboxPending' = traceBatch(traceMailboxes, traceOffset + BATCH_SIZE)
  /\ UNCHANGED <<emailMap, tracePc, traceMailboxes, failed, traceResult,
                 restOfTrace>>

\* lines 195-211: Promise.all of the last batch resolves and the archive
\* query is made
InboxesDone ==
  /\ tracePc = "inboxes"
  /\ inboxPending = {}
  /\ traceOffset + BATCH_SIZE >= Len(traceMailboxes)
  /\ tracePc' = "archive"
  /\ UNCHANGED <<emailMap, traceMailboxes, traceOffset, inboxPending, failed,
                 traceResult, restOfTrace>>

\* lines 198-242: method 4 settles
ArchiveSettles ==
  /\ tracePc = "archive"
  /\ \E response \in QueryOutcomes(FALSE) :
       /\ emailMap' = IF response.kind = "value"
                         THEN setAllNew(emailMap, response.value,
                                        "archive_mailbox")
                         ELSE emailMap
       /\ failed' = IF response.kind = "raise"
                       THEN failed \cup {"archive"} ELSE failed
  /\ tracePc' = "org_search"
  /\ UNCHANGED <<traceMailboxes, traceOffset, inboxPending, traceResult,
                 restOfTrace>>

\* lines 228-304: method 5 settles, the values of the Map are sorted and
\* returned
SearchSettles ==
  /\ tracePc = "org_search"
  /\ \E response \in QueryOutcomes(FALSE) :
       /\ emailMap' = IF response.kind = "value"
                         THEN setAllNew(emailMap, response.value,
                                        "org_search")
                         ELSE emailMap
       /\ failed' = IF response.kind = "raise"
                       THEN failed \cup {"org_search"} ELSE failed
  /\ traceResult' = sortByDateDesc(emailMap')
  /\ tracePc' = "returned"
  /\ UNCHANGED <<traceMailboxes, traceOffset, inboxPending, restOfTrace>>

NextTrace ==
  \/ CallGetMessageTrace
  \/ UsersSettle
  \/ SentItemsSettle
  \/ InboxSettles
  \/ NextInboxBatch
  \/ InboxesDone
  \/ ArchiveSettles
  \/ SearchSettles

SpecTrace == InitTrace /\ [][NextTrace]_vars

(* runDailySummary: fetch, organize by employee and direction, summarize, *)
(* send                                                                    *)

\* the most emails fetchEmails resolves to, the list of six apart
MaxFetched == 2

COMPANY_EMPLOYEES ==
  <<"jared@gbl-data.com", "marc@gbl-data.com", "tim@gbl-data.com",
    "clint@gbl-data.com", "rebeca@gbl-data.com", "john@gbl-data.com",
    "darren@gbl-data.com", "galina@gbl-data.com", "sales@gbl-data.com">>

\* COMPANY_EMPLOYEES.filter(email => email.toLowerCase() !==
\* 'jared@gbl-data.com')
EMPLOYEES_TO_PROCESS ==
  SelectSeq(COMPANY_EMPLOYEES,
            LAMBDA emp : toLowerCase(emp) # "jared@gbl-data.com")

\* emp.toLowerCase() for each employee to process
employeeLowerCase ==
  [k \in DOMAIN EMPLOYEES_TO_PROCESS |-> toLowerCase(EMPLOYEES_TO_PROCESS[k])]

\* employee.split('@')[0].toLowerCase()
usernameOf(employee) == toLowerCase(splitAt(employee)[1])

\* `${username}@gbl-data.com sent` and `${username}@gbl-data.com received`
categoryOf(employee, direction) ==
  usernameOf(employee) \o "@gbl-data.com " \o direction

\* the keys of the employees to process, as a table
categoryKeys ==
  [k \in DOMAIN EMPLOYEES_TO_PROCESS |->
     [sent     |-> categoryOf(EMPLOYEES_TO_PROCESS[k], "sent"),
      received |-> categoryOf(EMPLOYEES_TO_PROCESS[k], "received")]]

\* lines 59-66: the object with an empty sent and an empty received list
\* for each employee to process, its keys in insertion order
emptyCategories ==
  [n \in 1..(2 * Len(EMPLOYEES_TO_PROCESS)) |->
     [employee |-> IF n % 2 = 1 THEN categoryKeys[(n + 1) \div 2].sent
                   ELSE categoryKeys[n \div 2].received,
      emails   |-> <<>>]]

\* EMPLOYEES_TO_PROCESS.find(emp => emp.toLowerCase() === addr), as the
\* position of the employee, 0 for undefined
findEmployee(addr) ==
  LET hits == {k \in DOMAIN EMPLOYEES_TO_PROCESS : employeeLowerCase[k] = addr}
  IN  IF hits = {} THEN 0
      ELSE CHOOSE k \in hits : \A other \in hits : k <= other

\* emailsByEmployeeSentReceived[key].push(email)
pushTo(entries, key, email) ==
  [n \in DOMAIN entries |->
     IF entries[n].employee = key
       THEN [entries[n] EXCEPT !.emails = Append(@, email)]
       ELSE entries[n]]

\* the sender's sent category gets the email if the sender is an employee
\* to process
pushToSender(entries, email) ==
  LET found == findEmployee(toLowerCase(email.from.address))
  IN  IF found = 0 THEN entries
      ELSE pushTo(entries, categoryKeys[found].sent, email)

\* email.to.forEach(...): each recipient that has an address and is an
\* employee to process gets the email in the received category
RECURSIVE pushToRecipients(_, _, _)
pushToRecipients(entries, recipients, email) ==
  IF recipients = <<>> THEN entries
  ELSE LET recipient == Head(recipients)
           found == IF "address" \in DOMAIN recipient
                      THEN findEmployee(toLowerCase(recipient.address))
                      ELSE 0
       IN  pushToRecipients(
             IF found = 0 THEN entries
             ELSE pushTo(entries, categoryKeys[found].received, email),
             Tail(recipients), email)

\* line 99: email.from.address.toLowerCase() of a sent email throws when
\* the address is undefined
organizeThrows(email) ==
  email.direction = "sent" /\ "address" \notin DOMAIN email.from

\* lines 95-174: the categories after an email that is not a duplicate
organize(entries, email) ==
  IF email.direction = "sent"
    THEN pushToRecipients(pushToSender(entries, email), email.to, email)
    ELSE LET received == pushToRecipients(entries, email.to, email)
         IN  IF "address" \in DOMAIN email.from
               THEN pushToSender(received, email)
               ELSE received

isDuplicateNever(id, processed) == FALSE

\* line 89: processedEmailIds.has(email.id)
isDuplicate(id, processed) == id \in processed

\* lines 194-198: the keys with an empty list are deleted
withoutEmptyCategories(entries) ==
  SelectSeq(entries, LAMBDA entry : entry.emails # <<>>)

\* lines 204-209: delete summaries['jared@gbl-data.com sent'] and
\* summaries['jared@gbl-data.com received']
excludedKeys ==
  {categoryOf("jared@gbl-data.com", "sent"),
   categoryOf("jared@gbl-data.com", "received")}

withoutExcluded(result) ==
  [key \in DOMAIN result \ excludedKeys |-> result[key]]

\* an email as fetchEmails builds it
dailyEmail(id, direction, from, to, subject) ==
  [id |-> id, direction |-> direction, from |-> from, to |-> to,
   subject |-> subject, date |-> "day 1",
   text |-> "Please review the deck. Thanks"]

addressed(address) == [address |-> address, name |-> "Name"]

\* the emails fetchEmails may resolve to, for an id: sent by an employee to
\* another and to a vendor; received from a vendor, one recipient without
\* an address; sent by jared to jared; received from an employee by jared
\* and twice by another employee; sent, the sender's address undefined
emailShapes(id) ==
  {dailyEmail(id, "sent",
              [text |-> "Tim", address |-> "Tim@GBL-Data.com"],
              <<addressed("marc@gbl-data.com"), addressed("info@vendor.org")>>,
              "Quote"),
   dailyEmail(id, "received",
              [text |-> "Vendor", address |-> "info@vendor.org"],
              <<[name |-> "Undisclosed"], addressed("tim@gbl-data.com")>>,
              "Invoice"),
   dailyEmail(id, "sent",
              [text |-> "Jared", address |-> "jared@gbl-data.com"],
              <<addressed("Jared@gbl-data.com")>>,
              "Note to self"),
   dailyEmail(id, "received",
              [text |-> "Marc", address |-> "Marc@gbl-data.com"],
              <<addressed("jared@gbl-data.com"), addressed("tim@gbl-data.com"),
                addressed("tim@gbl-data.com")>>,
              "Schedule"),
   dailyEmail(id, "sent",
              [text |-> "Unknown"],
              <<addressed("tim@gbl-data.com")>>,
              "Draft reply")}

FetchedIds == {"AAMk1", "AAMk2"}

\* six emails sent by one employee, more than a batch of the summarizer
sixSent ==
  [n \in 1..6 |->
     dailyEmail("AAMk" \o ToString(n), "sent",
                [text |-> "Tim", address |-> "tim@gbl-data.com"],
                <<addressed("info@vendor.org")>>,
                "Message " \o ToString(n))]

FetchedEmailLists ==
  UNION {[1..n -> UNION {emailShapes(id) : id \in FetchedIds}] :
           n \in 0..MaxFetched}
    \cup {sixSent}

InitDaily ==
  /\ apiKey \in BOOLEAN
  /\ toSummarize = <<>>
  /\ sumPc = "idle"
  /\ simpleSummary = ""
  /\ aiOutcome = NoOutcome
  /\ settled = NoOutcome
  /\ fetchedEmails = <<>>
  /\ organizeAt = 0
  /\ processedEmailIds = {}
  /\ organizedLog = <<>>
  /\ sentSummaries = NoOutcome
  /\ dailyPc = "fetching"
  /\ ClassifierAndFetchIdle
  /\ DraftIdle
  /\ BatchIdle
  /\ TraceIdle

restOfDaily ==
  <<trusted, classifierVars, fetchVars, draftVars, summarizeVars, traceVars>>

\* lines 50-69: fetchEmails resolves; without emails the function returns,
\* otherwise the categories and the Set are created
FetchEmailsResolves ==
  /\ dailyPc = "fetching"
  /\ \E emails \in FetchedEmailLists :
       /\ fetchedEmails' = emails
       /\ IF Len(emails) = 0
            THEN /\ dailyPc' = "done"
                 /\ UNCHANGED <<emailsByEmployee, organizeAt>>
            ELSE /\ dailyPc' = "organizing"
                 /\ emailsByEmployee' = emptyCategories
                 /\ organizeAt' = 1
  /\ UNCHANGED <<processedEmailIds, organizedLog, sentSummaries, summaries,
                 entryIndex, offset, calls, settleOrder, bpc, restOfDaily>>

\* lines 50 and 217-219: fetchEmails rejects and the catch block logs
FetchEmailsRejects ==
  /\ dailyPc = "fetching"
  /\ dailyPc' = "failed"
  /\ UNCHANGED <<fetchedEmails, organizeAt, processedEmailIds, organizedLog,
                 sentSummaries, batchVars, restOfDaily>>

\* lines 87-175: the callback of emails.forEach for the next email; an
\* exception in it ends the function in the catch block
OrganizeEmail ==
  /\ dailyPc = "organizing"
  /\ organizeAt <= Len(fetchedEmails)
  /\ LET email == fetchedEmails[organizeAt]
     IN  IF isDuplicate(email.id, processedEmailIds)
           THEN /\ organizeAt' = organizeAt + 1
                /\ UNCHANGED <<processedEmailIds, organizedLog,
                               emailsByEmployee, dailyPc>>
           ELSE /\ processedEmailIds' = processedEmailIds \cup {email.id}
                /\ organizedLog' = Append(organizedLog, organizeAt)
                /\ IF organizeThrows(email)
                     THEN /\ dailyPc' = "failed"
                          /\ UNCHANGED <<organizeAt, emailsByEmployee>>
                     ELSE /\ emailsByEmployee' =
                               organize(emailsByEmployee, email)
                          /\ organizeAt' = organizeAt + 1
                          /\ UNCHANGED dailyPc
  /\ UNCHANGED <<fetchedEmails, sentSummaries, summaries, entryIndex, offset,
                 calls, settleOrder, bpc, restOfDaily>>

\* lines 194-201: the empty categories are deleted and summarizeEmails is
\* called with what is left
RemoveEmptyCategories ==
  /\ dailyPc = "organizing"
  /\ organizeAt > Len(fetchedEmails)
  /\ emailsByEmployee' = withoutEmptyCategories(emailsByEmployee)
  /\ bpc' = "ready"
  /\ dailyPc' = "summarizing"
  /\ UNCHANGED <<fetchedEmails, organizeAt, processedEmailIds, organizedLog,
                 sentSummaries, summaries, entryIndex, offset, calls,
                 settleOrder, restOfDaily>>

\* lines 201-214: summarizeEmails has resolved, the categories of jared are
\* deleted from its result and sendSummaryEmail is called
SendSummaries ==
  /\ dailyPc = "summarizing"
  /\ bpc = "returned"
  /\ sentSummaries' = withoutExcluded(summaries)
  /\ dailyPc' = "sending"
  /\ UNCHANGED <<fetchedEmails, organizeAt, processedEmailIds, organizedLog,
                 batchVars, restOfDaily>>

\* lines 214-219: sendSummaryEmail resolves, or rejects and the catch block
\* logs
SendSettles ==
  /\ dailyPc = "sending"
  /\ \E resolved \in BOOLEAN :
       dailyPc' = IF resolved THEN "done" ELSE "failed"
  /\ UNCHANGED <<fetchedEmails, organizeAt, processedEmailIds, organizedLog,
                 sentSummaries, batchVars, restOfDaily>>

NextDaily ==
  \/ FetchEmailsResolves
  \/ FetchEmailsRejects
  \/ OrganizeEmail
  \/ RemoveEmptyCategories
  \/ CallSummarizeEmails
  \/ EnterCategory
  \/ StartBatch
  \/ AiSettlesCall
  \/ BatchResolves
  \/ DelayElapses
  \/ ReturnSummaries
  \/ SendSummaries
  \/ SendSettles

SpecDaily == InitDaily /\ [][NextDaily]_vars

(* What the claims speak of, read off the state                            *)

HasSender == "from" \in DOMAIN message

SenderAddress == IF HasSender THEN OrEmpty(message.from, "address") ELSE ""

SubjectText == OrEmpty(message, "subject")

BodyText == OrEmpty(message, "text")

ReturnedFrom(fn) == pc = "returned" /\ callee = fn

Verdict(fn) == ReturnedFrom(fn) /\ ret.kind = "return"

SenderTrusted ==
  HasSender /\ \E t \in trusted : toLowerCase(t) = toLowerCase(SenderAddress)

ReplyPrefix == factsOfSubject(SubjectText).isReplyOrForward

SubjectKeyword == factsOfSubject(SubjectText).hasUnwantedSubject

MarketingTerm == factsOfSubject(SubjectText).hasMarketingIndicators

FooterPhrase == factsOfBody(BodyText).hasMarketingFooter

SpecialCharInSubject ==
  \E i \in 1..Len(SubjectText) : CharAt(SubjectText, i) \in SpecialCharClass

\* the ten signals of the message, each from its own definition
Signals ==
  [unwantedSubject      |-> factsOfSubject(SubjectText).hasUnwantedSubject,
   unwantedSender       |-> factsOfAddress(SenderAddress).hasUnwantedSender,
   advertisingDomain    |-> factsOfAddress(SenderAddress).isAdvertisingDomain,
   hasEmoji             |-> factsOfSubject(SubjectText).hasEmoji,
   hasSpecialChars      |-> SpecialCharInSubject,
   marketingFooter      |-> FooterPhrase,
   tooManyCaps          |-> factsOfSubject(SubjectText).hasTooManyCaps,
   spamBodyContent      |-> factsOfBody(BodyText).hasSpamBodyContent,
   suspiciousLinks      |-> factsOfBody(BodyText).hasSuspiciousLinks,
   excessivePunctuation |-> factsOfSubject(SubjectText).excessivePunctuation]

TrueSignals == {g \in DOMAIN Signals : Signals[g]}

\* C1: isLikelyUnwantedEmail returns false, through its first early return,
\* for every message whose sender address equals a trusted address ignoring
\* case, whatever the subject, the body and the signals are.
C1_TrustedSenderReturnsFalse ==
  (ReturnedFrom("isLikelyUnwantedEmail") /\ SenderTrusted)
    => ret = [kind |-> "return", value |-> FALSE, path |-> "company"]

\* a trusted sender written in another case, a reply subject that is a
\* marketing subject too, and a call that returned
C1_Witness ==
  /\ ReturnedFrom("isLikelyUnwantedEmail")
  /\ SenderTrusted
  /\ SenderAddress \notin trusted
  /\ SubjectKeyword
  /\ ReplyPrefix
  /\ ~ret.value

\* C2 as stated: for a non-trusted sender the reply/forward exemption is
\* taken exactly when the trimmed subject starts with re:, fwd: or fw:, the
\* subject matches none of the subject-keyword patterns and the body has no
\* marketing-footer phrase.
C2_ExemptionUsesSubjectKeywords ==
  (Verdict("isLikelyUnwantedEmail") /\ ~SenderTrusted)
    => ((ret.path = "reply")
          <=> (ReplyPrefix /\ ~SubjectKeyword /\ ~FooterPhrase))

\* C2 amended: for a non-trusted sender the reply/forward exemption is taken
\* exactly when the trimmed subject starts with re:, fwd: or fw:, the subject
\* includes none of the marketingTerms of hasMarketingIndicators and the body
\* has no marketing-footer phrase; the call then returns false.
C2_ExemptionUsesMarketingTerms ==
  (Verdict("isLikelyUnwantedEmail") /\ ~SenderTrusted)
    => /\ (ret.path = "reply")
            <=> (ReplyPrefix /\ ~MarketingTerm /\ ~FooterPhrase)
       /\ ret.path = "reply" => ~ret.value

\* an exempted reply whose subject matches a subject-keyword pattern and
\* whose sender triggers a signal
C2_Witness ==
  /\ Verdict("isLikelyUnwantedEmail")
  /\ ~SenderTrusted
  /\ ret.path = "reply"
  /\ SubjectKeyword
  /\ factsOfAddress(SenderAddress).isAdvertisingDomain

\* C3: for a message that is neither from a trusted sender nor exempted as a
\* reply or forward, the verdict is the disjunction of the ten signals.
C3_VerdictIsOrOfSignals ==
  (/\ Verdict("isLikelyUnwantedEmail")
   /\ ~SenderTrusted
   /\ ~(ReplyPrefix /\ ~MarketingTerm /\ ~FooterPhrase))
    => (ret.value <=> TrueSignals # {})

\* a verdict of true that rests on the capitalization signal alone
C3_Witness ==
  /\ Verdict("isLikelyUnwantedEmail")
  /\ ~SenderTrusted
  /\ ret.path = "signals"
  /\ ret.value
  /\ TrueSignals = {"tooManyCaps"}

UpperSender(m) ==
  IF "from" \in DOMAIN m /\ "address" \in DOMAIN m.from
    THEN [m EXCEPT !.from = [@ EXCEPT !.address = toUpperCase(@)]]
    ELSE m

UpperSubject(m) ==
  IF "subject" \in DOMAIN m THEN [m EXCEPT !.subject = toUpperCase(@)]
  ELSE m

VerdictOn(m) == isLikelyUnwantedEmail(m, trusted, 0).value

\* C5 as stated: the verdict is the same for the message with its sender
\* address upper-cased and for the message with its subject upper-cased.
C5_UpperCasingChangesNothing ==
  Verdict("isLikelyUnwantedEmail")
    => /\ ret.value = VerdictOn(UpperSender(message))
       /\ ret.value = VerdictOn(UpperSubject(message))

\* C5 amended: the verdict is the same for the message with its sender
\* address upper-cased; upper-casing the subject changes the verdict only
\* from false to true, and only when it turns the capitalization signal on.
C5_UpperCasingSenderOrCaps ==
  Verdict("isLikelyUnwantedEmail")
    => /\ ret.value = VerdictOn(UpperSender(message))
       /\ ret.value # VerdictOn(UpperSubject(message))
            => /\ ~ret.value
               /\ ~factsOfSubject(SubjectText).hasTooManyCaps
               /\ factsOfSubject(toUpperCase(SubjectText)).hasTooManyCaps

\* a lower-case sender that triggers the local-part signal alone, verdict true
C5_Witness ==
  /\ Verdict("isLikelyUnwantedEmail")
  /\ ~SenderTrusted
  /\ SenderAddress # toUpperCase(SenderAddress)
  /\ TrueSignals = {"unwantedSender"}
  /\ ret.path = "signals"
  /\ ret.value
  /\ VerdictOn(UpperSender(message))

\* the message with every absent field made an empty string
WithDefaults(m) ==
  [subject |-> OrEmpty(m, "subject"),
   from    |-> [address |-> IF "from" \in DOMAIN m
                              THEN OrEmpty(m.from, "address") ELSE "",
                text    |-> IF "from" \in DOMAIN m
                              THEN OrEmpty(m.from, "text") ELSE ""],
   text    |-> OrEmpty(m, "text")]

\* C6: neither classifier ever throws, and a message with absent fields
\* gets the verdict of the message with empty strings in their place.
C6_NeverThrows ==
  pc = "returned"
    => /\ ret.kind = "return"
       /\ callee = "isLikelyUnwantedEmail"
            => ret.value = VerdictOn(WithDefaults(message))
       /\ callee = "isObviouslyAdvertisement"
            => ret.value = isObviouslyAdvertisement(WithDefaults(message)).value

CallStep == pc = "ready" /\ pc' = "returned"

C8_SameCallSameVerdict ==
  \A a, b \in DOMAIN history :
    (history[a].email = history[b].email /\ history[a].callee = history[b].callee)
      => history[a].completion = history[b].completion

\* the same message classified twice by isLikelyUnwantedEmail, with a
\* verdict of true that rests on a special character of the subject
C8_Witness ==
  /\ ReturnedFrom("isLikelyUnwantedEmail")
  /\ nCalls = 2
  /\ history[1].email = history[2].email
  /\ history[1].callee = "isLikelyUnwantedEmail"
  /\ TrueSignals = {"hasSpecialChars"}
  /\ ret.value
  /\ reLastIndex > 0

(* fetchEmails, read off the state                                         *)

\* the sender of a processed message is, ignoring case, a trusted sender
TrustedEmail(e) ==
  \E t \in trusted : toLowerCase(t) = toLowerCase(e.from.address)

\* neither the subject nor the body of a processed message carries a marker
\* of an obvious advertisement
NoObviousMarkers(e) ==
  /\ ~factsOfSubject(e.subject).hasObviousMarketingSubject
  /\ ~factsOfBody(e.text).hasUnsubscribeLink
  /\ ~factsOfBody(e.text).hasDoNotReply

\* the messages of the answer that carry from data
WithFrom ==
  {n \in DOMAIN mailbox :
     "from" \in DOMAIN mailbox[n] /\ "emailAddress" \in DOMAIN mailbox[n].from}

Returned(e) == \E k \in DOMAIN filteredEmails : filteredEmails[k] = e

BothEntryPointsFalse(e) ==
  /\ ~isObviouslyAdvertisement(e).value
  /\ ~isLikelyUnwantedEmail(e, trusted, 0).value

\* C9: with spam filtering enabled, fetchEmails hands each message that
\* reaches the filter to exactly one classifier: isObviouslyAdvertisement when
\* the sender is, ignoring case, in the trusted set, isLikelyUnwantedEmail
\* otherwise; no call of isLikelyUnwantedEmail made there returns through its
\* trusted-sender early return.
C9_OneEntryPointBySenderTrust ==
  (filtering /\ stage \in {"filtering", "filtered", "done"}) =>
    /\ Len(history) = cursor - 1
    /\ \A n \in DOMAIN history :
         /\ history[n].email = allEmails[n]
         /\ history[n].callee = IF TrustedEmail(allEmails[n])
                                   THEN "isObviouslyAdvertisement"
                                   ELSE "isLikelyUnwantedEmail"
         /\ history[n].completion.path # "company"

\* a run that filtered a message of a trusted sender and one of another
C9_Witness ==
  /\ stage = "done"
  /\ filtering
  /\ Len(history) = 2
  /\ \E a, b \in DOMAIN history :
       /\ history[a].callee = "isObviouslyAdvertisement"
       /\ TrustedEmail(history[a].email)
       /\ history[b].callee = "isLikelyUnwantedEmail"
       /\ ~TrustedEmail(history[b].email)

\* C10 as stated: every message of a trusted sender without a marker of an
\* obvious advertisement is classified false by both entry points and is
\* among the messages fetchEmails returns.
C10_TrustedPlainIsReturned ==
  stage = "done" =>
    \A n \in WithFrom :
      LET e == receivedEmail(n, mailbox[n])
      IN  (TrustedEmail(e) /\ NoObviousMarkers(e))
            => BothEntryPointsFalse(e) /\ Returned(e)

\* C10, amended: every message of a trusted sender without a marker of an
\* obvious advertisement is classified false by both entry points, and
\* fetchEmails returns it unless it is a draft: drafts are removed before
\* the spam filter, whoever sent them, and the spam filter removes no such
\* message.
C10_TrustedPlainIsReturnedUnlessDraft ==
  stage = "done" =>
    \A n \in WithFrom :
      LET e == receivedEmail(n, mailbox[n])
      IN  (TrustedEmail(e) /\ NoObviousMarkers(e))
            => /\ BothEntryPointsFalse(e)
               /\ Returned(e) <=> ~e.isDraft

\* a run with spam filtering that returned a message of a trusted sender
\* which isObviouslyAdvertisement had classified false
C10_Witness ==
  /\ stage = "done"
  /\ filtering
  /\ \E n \in DOMAIN history :
       /\ TrustedEmail(history[n].email)
       /\ NoObviousMarkers(history[n].email)
       /\ history[n].callee = "isObviouslyAdvertisement"
       /\ ~history[n].completion.value
       /\ Returned(history[n].email)

\* C11: isObviouslyAdvertisement returns true exactly when the subject has
\* one of the explicit marketing subject phrases and the body carries an
\* unsubscribe/opt-out marker or a do-not-reply marker; a marketing subject
\* alone, or a marker alone, gives false.
C11_ObviousIffSubjectAndMarker ==
  Verdict("isObviouslyAdvertisement") =>
    (ret.value <=>
       /\ factsOfSubject(SubjectText).hasObviousMarketingSubject
       /\ \/ factsOfBody(BodyText).hasUnsubscribeLink
          \/ factsOfBody(BodyText).hasDoNotReply)

\* a newsletter with a do-not-reply marker and no unsubscribe marker
C11_Witness ==
  /\ Verdict("isObviouslyAdvertisement")
  /\ ret.value
  /\ SubjectText = "Newsletter"
  /\ factsOfBody(BodyText).hasDoNotReply
  /\ ~factsOfBody(BodyText).hasUnsubscribeLink

\* the messages fetchEmails has processed, drafts included
Fetched == combinedEmails(mailbox, sentItems, searchHits)

\* the classifier the filter called for a message returned true
ClassifiedTrue(e) ==
  \E h \in DOMAIN history :
    history[h].email = e /\ history[h].completion.value

\* C12: the list fetchEmails returns holds processed messages only and no
\* draft; a processed message that is not a draft is in it exactly when
\* filtering is disabled or its classification was false.
C12_ReturnedAreKeptNonDrafts ==
  stage = "done" =>
    /\ \A k \in DOMAIN filteredEmails :
         /\ ~filteredEmails[k].isDraft
         /\ \E n \in DOMAIN Fetched : Fetched[n] = filteredEmails[k]
    /\ \A n \in DOMAIN Fetched :
         ~Fetched[n].isDraft =>
           (Returned(Fetched[n]) <=> (filtering => ~ClassifiedTrue(Fetched[n])))

\* a filtering run over a draft and a message classified true
C12_Witness ==
  /\ stage = "done"
  /\ filtering
  /\ \E n \in DOMAIN Fetched : Fetched[n].isDraft
  /\ \E h \in DOMAIN history :
       history[h].completion.value /\ ~Returned(history[h].email)

\* C13 as stated: without a companyEmployees argument fetchEmails completes
\* and hands every message to isLikelyUnwantedEmail, which never takes its
\* trusted-sender return.
C13_AbsentEmployeesIsEmptySet ==
  ~employeesGiven =>
    /\ stage # "threw"
    /\ (stage = "done" /\ filtering) =>
         /\ Len(history) = Len(allEmails)
         /\ \A h \in DOMAIN history :
              /\ history[h].callee = "isLikelyUnwantedEmail"
              /\ history[h].completion.path # "company"

\* the body spam scores of the bodies of the model, counted by hand from the
\* phrase tables, in half points (3 points are 6 half points)
ExpectedHalfPoints ==
  ("" :> 0)
    @@ ("Let's finalize numbers by Friday." :> 0)
    @@ ("click here" :> 1)
    @@ ("To unsubscribe reply" :> 0)
    @@ ("do not reply" :> 0)
    @@ ("viagra lottery" :> 8)
    @@ ("viagra discount" :> 6)
    @@ ("viagra discount best" :> 7)
    @@ (SevenLinks :> 8)

\* C14: calculateSpamBodyScore gives 2 per high-signal phrase, 1 per
\* medium-signal phrase, 0.5 per low-signal phrase, 1 for more than 3 links
\* and 1 more for more than 6, and 0 for the empty body; the body-spam
\* signal is true exactly when the score is above 3, and then the verdict of
\* the ten signals is true.
C14_ScoreAndThreshold ==
  Verdict("isLikelyUnwantedEmail") =>
    /\ factsOfBody(BodyText).bodySpamScore = ExpectedHalfPoints[BodyText]
    /\ factsOfBody(BodyText).hasSpamBodyContent
         <=> ExpectedHalfPoints[BodyText] > 6
    /\ (ret.path = "signals" /\ ExpectedHalfPoints[BodyText] > 6)
         => ret.value

\* the body with seven links, "limited time" and "act now", whose score of
\* 4 is the only signal
C14_Witness ==
  /\ Verdict("isLikelyUnwantedEmail")
  /\ BodyText = SevenLinks
  /\ TrueSignals = {"spamBodyContent"}
  /\ ret.value

\* the example message of C15, from a sender that is not trusted
IsPromoExample ==
  /\ Verdict("isLikelyUnwantedEmail")
  /\ SubjectText = "50% OFF - Unsubscribe now!"
  /\ SenderAddress = "promo@mailchimp.com"
  /\ ~SenderTrusted

\* C15 as stated: the example gets true, and its subject-keyword, sender
\* local-part and advertising-domain signals all trigger.
C15_PromoAllThreeSignals ==
  IsPromoExample =>
    /\ ret.value
    /\ Signals.unwantedSubject
    /\ Signals.unwantedSender
    /\ Signals.advertisingDomain

\* C15, amended: the example gets true; its subject-keyword and
\* advertising-domain signals trigger, its sender local-part signal does
\* not (no entry of unwantedSenders is contained in "promo").
C15_PromoSubjectAndDomainSignals ==
  IsPromoExample =>
    /\ ret.value
    /\ Signals.unwantedSubject
    /\ ~Signals.unwantedSender
    /\ Signals.advertisingDomain

C15_Witness ==
  /\ IsPromoExample
  /\ BodyText = ""
  /\ ret.path = "signals"
  /\ Len(debugLog) = 1

\* the example message of C16, from a sender that is not trusted
IsBudgetReplyExample ==
  /\ Verdict("isLikelyUnwantedEmail")
  /\ SubjectText = "Re: Q2 Budget"
  /\ BodyText = "Let's finalize numbers by Friday."
  /\ SenderAddress = "jane@company.com"
  /\ ~SenderTrusted

\* C16: the example gets false, through the reply exemption: reply prefix,
\* no marketing term in the subject, no marketing footer in the body.
C16_BudgetReplyExempt ==
  IsBudgetReplyExample =>
    /\ ~ret.value
    /\ ret.path = "reply"
    /\ ReplyPrefix /\ ~MarketingTerm /\ ~FooterPhrase

C16_Witness ==
  /\ IsBudgetReplyExample
  /\ trusted = {}
  /\ debugLog = <<>>

\* the words of a subject, surrounding whitespace set aside
WordsOf(subject) ==
  LET t == trim(subject)
  IN  IF t = "" THEN <<>> ELSE splitWhiteSpace(t)

HasLetter(w) ==
  \E i \in 1..Len(w) : CharAt(w, i) \in DOMAIN LowerOf \cup DOMAIN UpperOf

\* a word with a letter and no lower-case letter
IsUpperCaseWord(w) == HasLetter(w) /\ w = toUpperCase(w)

\* C17 as stated: the capitalization signal is true exactly when the subject
\* has more than 3 words and more than half of them are upper-case words;
\* words without letters do not count as upper-case and surrounding
\* whitespace does not change the word count.
C17_CapsCountsUpperCaseWords ==
  Verdict("isLikelyUnwantedEmail") =>
    LET words == WordsOf(SubjectText)
        upper == Cardinality({i \in DOMAIN words : IsUpperCaseWord(words[i])})
    IN  Signals.tooManyCaps <=> (Len(words) > 3 /\ 2 * upper > Len(words))

(* create_draft_emails, read off the state                                 *)

\* the emails the mail API has created in the iteration of a salesperson
CreatedFor(u) == {k \in DOMAIN outbox : outbox[k].user = u}

\* C18: in one run of create_draft_emails no salesperson gets more emails
\* (sent plus drafted, no-name drafts included) than max_per_salesperson,
\* although up to twice as many contacts are fetched and validated.
C18_QuotaPerSalesperson ==
  /\ counters.total_for_user <= callArgs.max_per_salesperson
  /\ \A n \in DOMAIN EMAIL_USERS :
       Cardinality(CreatedFor(EMAIL_USERS[n])) <= callArgs.max_per_salesperson

\* a run that stopped at the limit of the last salesperson with validation
\* results left over, after a sent email and a no-name draft
C18_Witness ==
  /\ dpc = "returned"
  /\ callArgs.max_per_salesperson = MaxQuota
  /\ pending > 0
  /\ Cardinality(CreatedFor(user_email)) = MaxQuota
  /\ \E k \in DOMAIN outbox : outbox[k].no_name
  /\ \E k \in DOMAIN outbox : outbox[k].call = "send_email"

\* C19 as stated: in a run with sandbox mode on, every email created is
\* addressed to the sandbox address and none to the contact.
C19_SandboxRedirectsEveryEmail ==
  run.sandbox_mode =>
    \A k \in DOMAIN outbox : outbox[k].recipient = SandboxAddress

\* C20 as stated: a call that leaves out an override runs with the setting
\* the manager was constructed with.
C20_OmittedOverrideUsesInstance ==
  dpc \in {"users", "contacts", "returned"} =>
    /\ callArgs.sandbox_mode \in {"omitted", "None"}
         => run.sandbox_mode = manager.sandbox_mode
    /\ callArgs.auto_send_enabled \in {"omitted", "None"}
         => run.auto_send_enabled = manager.auto_send


\* the call of summarizeEmail has settled
Summarized == sumPc = "settled"

\* the model was called and failed
AiFailed == aiOutcome.kind = "error"

\* the model was called and its text is empty
AiEmpty == aiOutcome.kind = "text" /\ trim(aiOutcome.text) = ""

\* the model gave nothing usable: no text, or a text that is empty once
\* formatted
AiUnusable ==
  \/ aiOutcome.kind = "undefined"
  \/ aiOutcome.kind = "text" /\ trim(formatSummary(aiOutcome.text)) = ""

BlankContent == trim(emailContentOf(toSummarize)) = ""

\* C21 as stated: whenever the key is missing, the model call fails with
\* any error, or the model returns an empty summary, summarizeEmail resolves
\* to exactly createSimpleSummary(email), and its promise never rejects.
C21_FallbackIsSimpleSummary ==
  Summarized =>
    /\ settled.kind = "resolve"
    /\ (~apiKey \/ AiFailed \/ AiEmpty) =>
         settled.value = createSimpleSummary(toSummarize)

\* C21 amended: the promise resolves; an email of blank content gives
\* 'Empty email (no content)' whatever the key; otherwise a missing key, a
\* model error that carries a message, or a model text that is missing or
\* empty once formatted gives exactly createSimpleSummary(email); a model
\* error without a message gives 'Failed to summarize: <subject>'.
C21_FallbackUnlessBlankOrNoMessage ==
  Summarized =>
    /\ settled.kind = "resolve"
    /\ BlankContent => settled.value = "Empty email (no content)"
    /\ (~BlankContent
          /\ (\/ ~apiKey
              \/ AiFailed /\ "message" \in DOMAIN aiOutcome
              \/ AiUnusable)) =>
         settled.value = createSimpleSummary(toSummarize)
    /\ (AiFailed /\ "message" \notin DOMAIN aiOutcome) =>
         settled.value = "Failed to summarize: " \o toSummarize.subject

\* the model returned a text that formats to nothing and the rule-based
\* summary, with its action marker, was returned
C21_Witness ==
  /\ Summarized
  /\ aiOutcome = [kind |-> "text", text |-> "<b></b>"]
  /\ settled.value = "Please review the deck. [Possible action required]"


\* an iteration of the loop over the validation results has just run
ContactHandled == dpc = "contacts" /\ handled # NoContact

\* C22: send_email is invoked for a contact only when its validation result
\* has auto_send true, auto-send is enabled for the run and sandbox mode is
\* off; in every other case, and for every no-name contact, the only call of
\* the mail client is create_draft_email, so nothing is sent.
C22_SendOnlyWhenAllowed ==
  ContactHandled =>
    LET sendAllowed == /\ handled.validation_data.auto_send
                       /\ run.auto_send_enabled
                       /\ ~run.sandbox_mode
    IN  /\ handled.call = "send_email" => sendAllowed
        /\ (~sendAllowed \/ handled.validation_data.trigger_no_name_email) =>
             handled.call \in {"none", "create_draft_email"}

\* an email was sent for a contact, and the run is outside the sandbox
C22_Witness ==
  /\ ContactHandled
  /\ handled.call = "send_email"
  /\ handled.email_id = "id"
  /\ ~run.sandbox_mode

\* the step is an iteration of the loop over the validation results
ContactStep == dpc = "contacts" /\ pending' = pending - 1

\* the step takes up a salesperson whose batch validation raises
ValidationRaisedStep ==
  dpc = "users" /\ salespeople # <<>> /\ salespeople' = Tail(salespeople)
    /\ batchOutcome' = "validation_raised"

\* C23: an exception while one contact is processed leaves the loop over
\* that salesperson's contacts running, with the remaining contacts still to
\* come; a batch validation that raises passes over that salesperson only,
\* the others still to come; a contact with a validation error or without
\* organization is not emailed and counts toward nothing.
C23_ErrorsAreIsolated ==
  [][/\ (ContactStep /\ handled'.raised) =>
          /\ dpc' = "contacts"
          /\ UNCHANGED <<salespeople, user_email, drafts_created>>
     /\ ValidationRaisedStep =>
          /\ dpc' = "users"
          /\ UNCHANGED <<outbox, drafts_created>>
     /\ (ContactStep /\ (\/ handled'.validation_data.error
                         \/ ~handled'.validation_data.organization)) =>
          /\ handled'.call = "none"
          /\ UNCHANGED <<counters, outbox>>]_vars

\* a contact's processing raised after its email was created, contacts of
\* the salesperson remain and the quota is not reached
C23_Witness ==
  /\ ContactHandled
  /\ handled.raised
  /\ pending > 0
  /\ ~limitReached(counters.total_for_user, callArgs.max_per_salesperson)
  /\ batchOutcome = "validated"

\* the counts of the returned dictionary add up
CountsAddUp ==
  /\ \A u \in DOMAIN EMAIL_USERS :
       drafts_created[EMAIL_USERS[u]] =
         drafts_created[EMAIL_USERS[u] \o "_sent"]
           + drafts_created[EMAIL_USERS[u] \o "_draft"]
  /\ drafts_created["total"] =
       drafts_created["total_sent"] + drafts_created["total_draft"]

\* C24: in the returned dictionary total = sent + draft for every
\* salesperson and overall; a count increases only in an iteration whose
\* mail call returned an id, by one, the sent count exactly when the call
\* was send_email and the draft count exactly when it was
\* create_draft_email, and the status update called is then the sent one
\* exactly when the email was sent and the draft one exactly when drafted.
C24_CountsConsistent ==
  [][/\ (dpc' = "returned" /\ DOMAIN drafts_created' # {}) => CountsAddUp'
     /\ (ContactStep /\ counters' # counters) =>
          /\ handled'.email_id = "id"
          /\ counters'.total_for_user = counters.total_for_user + 1
          /\ counters'.total_for_user =
               counters'.sent_for_user + counters'.drafted_for_user
          /\ (counters'.sent_for_user = counters.sent_for_user + 1)
               = (handled'.call = "send_email")
          /\ (handled'.status_call = "update_contact_sent_status")
               = (handled'.call = "send_email")
          /\ (handled'.status_call = "update_contact_draft_status")
               = (handled'.call = "create_draft_email")
     /\ (ContactStep /\ handled'.email_id # "id") =>
          /\ counters' = counters
          /\ handled'.status_call = "none"]_vars

\* a run has returned counts with both a sent and a drafted email
C24_Witness ==
  /\ dpc = "returned"
  /\ DOMAIN drafts_created # {}
  /\ drafts_created["total_sent"] >= 1
  /\ drafts_created["total_draft"] >= 1
  /\ drafts_created["total"] >= 2


\* the summarizeEmail calls that have started and not settled
InFlight == {j \in DOMAIN calls : calls[j].state = "awaiting"}

\* the step starts the calls of a batch
BatchStarts == bpc = "batch" /\ bpc' = "awaitAll"

\* C25: at most 5 summarizeEmail calls are in flight, all of them for
\* emails of the current batch of the current category; a batch starts only
\* when no call is in flight and the results of all earlier batches of the
\* category are in; the next category is entered only when no call is in
\* flight and the category before has all its summaries.
C25_BatchesOfFiveBehindBarrier ==
  [][/\ Cardinality(InFlight') <= 5
     /\ \A j \in DOMAIN calls' : offset' < j /\ j <= offset' + 5
     /\ BatchStarts =>
          /\ InFlight = {}
          /\ Len(summaries[currentEntry.employee]) = offset
          /\ offset % 5 = 0
     /\ (entryIndex >= 1 /\ entryIndex' # entryIndex) =>
          /\ entryIndex' = entryIndex + 1
          /\ InFlight = {} /\ InFlight' = {}
          /\ Len(summaries'[currentEntry.employee])
               = Len(currentEntry.emails)]_vars

\* the second batch of a category is in flight and the five summaries of
\* the first are in
C25_Witness ==
  /\ bpc = "awaitAll"
  /\ offset = 5
  /\ InFlight # {}
  /\ Len(summaries[currentEntry.employee]) = 5

\* the summaries a call can resolve to for the emails of a run
PossibleSummaries(email) ==
  {createSimpleSummary(email)}
    \cup {FormattedTexts[ai.text] : ai \in {o \in BatchAiOutcomes :
                                              o.kind = "text"}}

\* C26: the object summarizeEmails returns has exactly the keys of its
\* argument, and under each key one entry per email of that category, in the
\* order of the emails, each with the subject and date of its email and a
\* summary of that email, in whatever order the calls settled.
C26_OneSummaryPerEmailInOrder ==
  bpc = "returned" =>
    /\ DOMAIN summaries =
         {emailsByEmployee[k].employee : k \in DOMAIN emailsByEmployee}
    /\ \A k \in DOMAIN emailsByEmployee :
         LET emails == emailsByEmployee[k].emails
             entries == summaries[emailsByEmployee[k].employee]
         IN  /\ Len(entries) = Len(emails)
             /\ \A j \in DOMAIN emails :
                  /\ entries[j].subject = emails[j].subject
                  /\ entries[j].date = emails[j].date
                  /\ entries[j].summary \in PossibleSummaries(emails[j])

\* a run has returned whose last batch settled in the reverse of the order
\* of its emails
C26_Witness ==
  /\ bpc = "returned"
  /\ Len(settleOrder) >= 2
  /\ settleOrder[1] > settleOrder[2]
  /\ \A k \in DOMAIN emailsByEmployee :
       Len(summaries[emailsByEmployee[k].employee])
         = Len(emailsByEmployee[k].emails)


\* no two entries of a list have the same message id
NoTwoSameId(entries) ==
  \A j, k \in DOMAIN entries : entries[j].id = entries[k].id => j = k

\* C27: the Map of getMessageTrace and the list it returns hold at most one
\* entry per message id, in whatever order the mailbox queries settle and
\* whichever methods fail; an entry once recorded is kept as it is by every
\* later method and mailbox, so a message found in the sent items keeps the
\* source 'sent_items'; and the failure of a collection method or mailbox
\* query never makes the trace throw.
C27_OneEntryPerIdFirstSourceKept ==
  [][/\ NoTwoSameId(emailMap')
     /\ tracePc' = "returned" =>
          /\ NoTwoSameId(traceResult')
          /\ {traceResult'[k] : k \in DOMAIN traceResult'}
               = {emailMap'[k] : k \in DOMAIN emailMap'}
     /\ \A k \in DOMAIN emailMap :
          \E j \in DOMAIN emailMap' : emailMap'[j] = emailMap[k]
     /\ failed' # failed => tracePc' # "threw"
     /\ tracePc' = "threw" => failed' = {}]_vars

\* a trace has returned two messages, one of the sent items and one of the
\* archive, both also found by a later query, and a mailbox query failed
C27_Witness ==
  /\ tracePc = "returned"
  /\ "inbox" \in failed
  /\ Len(traceResult) = 2
  /\ \E k \in DOMAIN traceResult : traceResult[k].source = "sent_items"
  /\ \E k \in DOMAIN traceResult : traceResult[k].source = "archive_mailbox"


\* C28 as stated: the list fetchEmails returns holds no two entries with
\* the same message id, whatever the received, sent and per-employee search
\* results are.
C28_ReturnedIdsAreUnique ==
  stage = "done" => NoTwoSameId(filteredEmails)

\* the positions of fetchedEmails whose email went through the organizing
\* code are those of the first email of each id
OrganizedAreFirstOfTheirId ==
  /\ \A j, k \in DOMAIN organizedLog :
       fetchedEmails[organizedLog[j]].id = fetchedEmails[organizedLog[k]].id
         => j = k
  /\ \A j \in DOMAIN organizedLog :
       \A earlier \in 1..(organizedLog[j] - 1) :
         fetchedEmails[earlier].id # fetchedEmails[organizedLog[j]].id

\* every email of a category is one that was organized
CategoriesHoldOrganizedOnly ==
  \A n \in DOMAIN emailsByEmployee :
    \A j \in DOMAIN emailsByEmployee[n].emails :
      \E k \in DOMAIN organizedLog :
        fetchedEmails[organizedLog[k]] = emailsByEmployee[n].emails[j]

\* C29: in runDailySummary, what sendSummaryEmail is called with has no
\* sent and no received category of jared@gbl-data.com; of the fetched
\* emails with one id only the first is organized, the later ones are
\* skipped, so the categories hold first occurrences only; and
\* summarizeEmails is called with categories that all have an email.
C29_NoJaredNoDuplicateNoEmpty ==
  dailyPc # "idle" =>
    /\ sentSummaries # NoOutcome =>
         DOMAIN sentSummaries \cap
           {"jared@gbl-data.com sent", "jared@gbl-data.com received"} = {}
    /\ OrganizedAreFirstOfTheirId
    /\ CategoriesHoldOrganizedOnly
    /\ bpc # "idle" =>
         \A n \in DOMAIN emailsByEmployee :
           emailsByEmployee[n].emails # <<>>

\* summaries were sent for a fetch of two emails with one id: the first,
\* received by jared and twice by tim from marc, was organized; the second,
\* which would have filled two more categories, was skipped, and those
\* categories were deleted as empty
C29_Witness ==
  /\ dailyPc = "done"
  /\ sentSummaries # NoOutcome
  /\ DOMAIN sentSummaries
       = {"marc@gbl-data.com sent", "tim@gbl-data.com received"}
  /\ Len(sentSummaries["tim@gbl-data.com received"]) = 2
  /\ Len(fetchedEmails) = 2
  /\ fetchedEmails[1].id = fetchedEmails[2].id
  /\ fetchedEmails[1].subject = "Schedule"
  /\ fetchedEmails[2].subject = "Quote"
  /\ organizedLog = <<1>>

====
